---- MODULE Spec2Model ----
(***************************************************************************)
(* NeuroAura: the Event Store (context/UserContext.tsx) and the three      *)
(* sensor watchers of App.tsx (GlobalShakeWatcher, GlobalNoiseWatcher,     *)
(* GlobalLightWatcher).                                                    *)
(*                                                                         *)
(* Units: time is in milliseconds (Date.now()); an accelerometer axis is   *)
(* in tenths of g, so that the vector norm is compared by its square;      *)
(* a metering level is in dBFS; a brightness level is in hundredths.       *)
(***************************************************************************)
EXTENDS Integers, Sequences, FiniteSets, TLC

VARIABLES
    now,              \* Date.now()
    ticks,            \* number of clock advances so far (bounds the run)
    platform,         \* Platform.OS: "web" or "native"
    cast,             \* the actors that take steps in this run
    parked,           \* the polling loops of the other run of the effects
    profile,          \* useState: profile
    checkIns,         \* useState: checkIns, as of the last render
    alerts,           \* useState: alerts, as of the last render
    updates,          \* React's queue of state updates not yet rendered
    ciCalls,          \* history: the entries built by addCheckIn, in call order
    alCalls,          \* history: the events built by logAlertEvent, in call order
    notifications,    \* Notifications.scheduleNotificationAsync requests, in order
    steps,            \* history: the calls of the last trigger, in order
    failed,           \* the requests of notifications that were rejected
    unmounted,        \* the effect cleanups have run
    shakePc,          \* GlobalShakeWatcher: position of setup()
    subscription,     \* GlobalShakeWatcher: let subscription
    lastShakeTime,    \* GlobalShakeWatcher: let lastShakeTime
    lastSample,       \* history: the sample the listener was called with last
    matched,          \* history: how much of Stream the last samples make up
    noisePc,          \* GlobalNoiseWatcher: position of startNoiseLoop()
    noiseCancelled,   \* GlobalNoiseWatcher: let cancelled
    lastNoiseAlert,   \* GlobalNoiseWatcher: let lastNoiseAlert
    maxLevel,         \* GlobalNoiseWatcher: let maxLevel
    noiseWake,        \* GlobalNoiseWatcher: expiry of the pending setTimeout
    lightPc,          \* GlobalLightWatcher: position of startLightLoop()
    lightCancelled,   \* GlobalLightWatcher: let cancelled
    lastLightAlert,   \* GlobalLightWatcher: let lastLightAlert
    lightWake,        \* GlobalLightWatcher: expiry of the pending setTimeout
    messages,         \* YourFriendChat: useState messages, as of the last render
    input,            \* YourFriendChat: useState input, as of the last render
    loading,          \* YourFriendChat: useState loading, as of the last render
    chatQueue,        \* YourFriendChat: state updates not yet rendered
    pending,          \* YourFriendChat: sendToComet calls that have not settled
    sent,             \* history: the conversations passed to sendToComet, in call order
    appended,         \* history: how many assistant messages handleSend has appended
    storage,          \* AsyncStorage: the value stored under each key
    io,               \* AsyncStorage: the requests issued and not yet served, in order
    scheduleUserId,   \* ScheduleCalendarScreen: userId, "closed" while not mounted
    items,            \* ScheduleCalendarScreen: useState items
    screenTimePc,     \* ScreenTimeRegulatorScreen: position of load(), "closed" while not mounted
    usedMinutes,      \* ScreenTimeRegulatorScreen: useState usedMinutes
    dailyGoal,        \* ScreenTimeRegulatorScreen: useState dailyGoal
    persisted         \* history: today's usage in storage when the screen was mounted

storeVars == <<profile, checkIns, alerts, updates, ciCalls, alCalls>>
shakeVars == <<shakePc, subscription, lastShakeTime, lastSample, matched>>
noiseVars == <<noisePc, noiseCancelled, lastNoiseAlert, maxLevel, noiseWake>>
lightVars == <<lightPc, lightCancelled, lastLightAlert, lightWake>>
chatVars == <<messages, input, loading, chatQueue, pending, sent, appended>>
diskVars == <<storage, io>>
toolVars == <<scheduleUserId, items, screenTimePc, usedMinutes, dailyGoal, persisted>>
screenVars == <<chatVars, diskVars, toolVars>>
appVars == <<now, ticks, platform, cast, parked, storeVars, notifications, steps, failed, unmounted,
             shakeVars, noiseVars, lightVars>>
vars == <<appVars, screenVars>>

----------------------------------------------------------------------------
(* Bounds of the model *)

MaxTicks == 3          \* clock advances in one run
MaxCheckIns == 2       \* addCheckIn calls in one run
MaxPending == 2        \* updates the screens queue between two renders
StartTime == 1000000   \* Date.now() when the app is mounted
MaxFailures == 1       \* notification requests rejected in one run
MaxBody == 3           \* body options selected on the check-in screen
MaxItems == 1          \* schedule items on the calendar
MaxUsage == 30         \* minutes of screen time used in one day
MaxRequests == 3       \* AsyncStorage requests waiting to be served
MaxSends == 3          \* accepted presses of Send in one run
MaxQueued == 1         \* state updates of the chat waiting for a render when the user types

(* Clock advances between two events: one accelerometer interval, one      *)
(* movement cooldown, and the rest of a noise/light cooldown.              *)
Deltas == {100, 6000, 294000}

----------------------------------------------------------------------------
(* Program constants *)

SHAKE_THRESHOLD == 23            \* 2.3 g, in tenths
SHAKE_COOLDOWN_MS == 6000
VERY_LOUD_THRESHOLD == 0 - 12
NOISE_COOLDOWN_MS == 5 * 60 * 1000
VERY_BRIGHT_THRESHOLD == 85      \* 0.85, in hundredths
LIGHT_COOLDOWN_MS == 5 * 60 * 1000
UPDATE_INTERVAL_MS == 100
NOISE_WINDOW_MS == 2500
NOISE_GAP_MS == 30000
LIGHT_GAP_MS == 30000
FOLLOWUP_SECONDS == 90
SILENCE == 0 - 160               \* let maxLevel = -160

ShakeSymptoms == <<"Phone shaken hard", "Possible anger / overload moment">>
NoiseSymptoms == <<"Very loud environment", "Possible sound overload moment">>
LightSymptoms == <<"Very bright screen / light", "Possible light sensitivity trigger">>
ShakeMessage == "Strong phone movement detected (possible anger / overload)."
NoiseMessage == "Very loud environment detected (noise overload risk)."
LightMessage == "Very bright screen / ambient light detected (light overload risk)."

(* type AlertEventType *)
AlertEventType == {"shake", "noise_high", "light_high", "manual_high_risk"}

(* The type tags the watchers pass to logAlertEvent. *)
ShakeAlertType == "shake"
NoiseAlertType == "manual_high_risk"
LightAlertType == "manual_high_risk"

----------------------------------------------------------------------------
(* Inputs *)

(* setProfile arguments: null and the guest profile of AuthScreen. *)
NoProfile == [name |-> "", email |-> "", role |-> "null"]
Profiles ==
    { NoProfile,
      [name |-> "friend", email |-> "guest@neuroaura", role |-> "guest"] }

(* CheckInScreen: (mood, body notes) pairs of handleConfirm. *)
ManualInputs ==
    { <<"calm", <<"No body notes added this time">> >>,
      <<"idk", <<"Headache", "Noise too much">> >> }

(* CheckInScreen: BODY_OPTIONS and the keys of MOOD_META. *)
BODY_OPTIONS ==
    << "Headache", "Heart beating fast", "Stomach feels weird", "Noise too much",
       "Lights too bright", "Hard to sit still", "Very tired" >>

MoodKeys == { "calm", "okay", "overwhelmed", "angry", "sad", "idk" }

(* CheckInScreen: the values selectedBody can take, the options toggled    *)
(* on in the order of the taps.                                            *)
Selections ==
    { [i \in 1..Len(pick) |-> BODY_OPTIONS[pick[i]]] :
         pick \in { p \in UNION { [1..k -> 1..Len(BODY_OPTIONS)] : k \in 0..MaxBody } :
                       \A i, j \in DOMAIN p : i # j => p[i] # p[j] } }

(* YourFriendChat: the greeting that useState(messages) starts with. *)
Greeting == [role |-> "assistant", content |-> "greeting"]

(* The state of the screens outside <App />'s watchers when the app         *)
(* starts: the chat holds its greeting, AsyncStorage holds nothing, the    *)
(* schedule and the screen-time screens are not mounted.                   *)
StartScreens ==
    /\ messages = <<Greeting>>
    /\ input = ""
    /\ loading = FALSE
    /\ chatQueue = <<>>
    /\ pending = 0
    /\ sent = <<>>
    /\ appended = 0
    /\ storage = <<>>
    /\ io = <<>>
    /\ scheduleUserId = "closed"
    /\ items = <<>>
    /\ screenTimePc = "closed"
    /\ usedMinutes = 0
    /\ dailyGoal = 180
    /\ persisted = ""

(* Accelerometer samples <<x, y, z>> in tenths of g, with norms            *)
(* 1.0, 2.3, 2.5 and 2.6.                                                  *)
Samples == { <<6, 8, 0>>, <<23, 0, 0>>, <<15, 20, 0>>, <<0, 24, 10>> }

(* Metering values of a recording status update, in dBFS. *)
Meterings == { 0 - 30, 0 - 12, 0 - 5 }

(* Math.random().toString(16).slice(2): two suffixes, so that two ids of   *)
(* one millisecond can be equal and can differ.                            *)
Randoms == { 0, 1 }

(* Brightness reads, in hundredths. *)
Levels == { 50, 85, 90 }

(* The statuses a permission call resolves to. *)
Statuses == { "granted", "denied" }

(* No sample delivered yet. *)
NoSample == [v |-> <<0, 0, 0>>, at |-> 0, last |-> 0, ci |-> 0, al |-> 0]

(* No other run of the effects. *)
NoLoops ==
    [live |-> FALSE,
     noisePc |-> "none", noiseCancelled |-> TRUE, lastNoiseAlert |-> 0,
     maxLevel |-> SILENCE, noiseWake |-> 0,
     lightPc |-> "none", lightCancelled |-> TRUE, lastLightAlert |-> 0,
     lightWake |-> 0]

(* The actors of the program: the user at the sign-in screen, the user at  *)
(* the check-in screen, and the three watchers.  The cast of a run is the  *)
(* set of actors that take steps in it: the screens of the others stay     *)
(* untouched and their pending awaits unsettled.                           *)
Actors == { "auth", "checkin", "shake", "noise", "light" }

(* One actor at a time. *)
Solo == { {a} : a \in Actors }

(* One of the two polling watchers at a time. *)
Loops == { {"noise"}, {"light"} }

(* The user at the check-in screen while the movement watcher and the      *)
(* light watcher run.                                                      *)
Crowd == { {"checkin", "shake", "light"} }

(* The two sampling loops of <App /> running side by side. *)
Siblings == { {"noise", "light"} }

(* The user signing in and planning on the schedule calendar. *)
Planner == { {"auth", "tools"} }

(* The user at the screen-time regulator. *)
Regulator == { {"screentime"} }

(* One watcher at a time. *)
Watchers == { {"shake"}, {"noise"}, {"light"} }

(* The user signing in while the light watcher runs. *)
AuthLight == { {"auth", "light"} }

----------------------------------------------------------------------------
(* Event Store: context/UserContext.tsx *)

(* `${Date.now()}_${Math.random().toString(16).slice(2)}` *)
NewId(t, r) == <<t, r>>

NewCheckIn(t, r, mood, symptoms) ==
    [id |-> NewId(t, r), timestamp |-> t, mood |-> mood, symptoms |-> symptoms]

NewAlert(t, r, type, message) ==
    [id |-> NewId(t, r), type |-> type, message |-> message, timestamp |-> t]

(* Mutant: the updater (prev) => [...prev, entry] *)
PrependAtEnd(entry, prev) == prev \o <<entry>>

(* The updater (prev) => [entry, ...prev] *)
Prepend(entry, prev) == <<entry>> \o prev

(* Mutant: a new profile starts with empty logs. *)
ApplyUpdateSignIn(u, s) ==
    CASE u.hook = "profile"  -> [profile |-> u.value, checkIns |-> <<>>, alerts |-> <<>>]
      [] u.hook = "checkIns" -> [s EXCEPT !.checkIns = Prepend(u.value, s.checkIns)]
      [] u.hook = "alerts"   -> [s EXCEPT !.alerts = Prepend(u.value, s.alerts)]

(* Mutant: the logs are set from the state rendered last,                  *)
(* setCheckIns([entry, ...checkIns]).                                      *)
ApplyUpdateStale(u, s) ==
    CASE u.hook = "profile"  -> [s EXCEPT !.profile = u.value]
      [] u.hook = "checkIns" -> [s EXCEPT !.checkIns = Prepend(u.value, checkIns)]
      [] u.hook = "alerts"   -> [s EXCEPT !.alerts = Prepend(u.value, alerts)]

(* One queued state update applied to the store's state s. *)
ApplyUpdate(u, s) ==
    CASE u.hook = "profile"  -> [s EXCEPT !.profile = u.value]
      [] u.hook = "checkIns" -> [s EXCEPT !.checkIns = Prepend(u.value, s.checkIns)]
      [] u.hook = "alerts"   -> [s EXCEPT !.alerts = Prepend(u.value, s.alerts)]

RECURSIVE ApplyAll(_, _)
ApplyAll(q, s) ==
    IF q = <<>> THEN s ELSE ApplyAll(Tail(q), ApplyUpdate(Head(q), s))

(* The state the store shows once every queued update is rendered. *)
Rendered ==
    ApplyAll(updates, [profile |-> profile, checkIns |-> checkIns, alerts |-> alerts])

(* Mutant: setting the value that was set last clears the profile. *)
setProfileToggle(q, value) ==
    Append(q, [hook |-> "profile",
               value |-> IF q # <<>> /\ q[Len(q)] = [hook |-> "profile", value |-> value]
                         THEN NoProfile
                         ELSE value])

(* setProfile(value): queues the replacement of the profile. *)
setProfile(q, value) == Append(q, [hook |-> "profile", value |-> value])

(* addCheckIn(mood, symptoms): queues the prepend of a new entry. *)
addCheckIn(q, t, r, mood, symptoms) ==
    Append(q, [hook |-> "checkIns", value |-> NewCheckIn(t, r, mood, symptoms)])

(* Mutant: an event is dropped while another one waits to be rendered. *)
logAlertEventOnce(q, t, r, type, message) ==
    IF \E i \in DOMAIN q : q[i].hook = "alerts"
    THEN q
    ELSE Append(q, [hook |-> "alerts", value |-> NewAlert(t, r, type, message)])

(* logAlertEvent(type, message): queues the prepend of a new event. *)
logAlertEvent(q, t, r, type, message) ==
    Append(q, [hook |-> "alerts", value |-> NewAlert(t, r, type, message)])

(* Mutant: every notification is immediate, trigger: null. *)
NotificationNow(type, seconds) == [type |-> type, seconds |-> 0]

(* Notifications.scheduleNotificationAsync({content: {data: {type}}, trigger}) *)
Notification(type, seconds) == [type |-> type, seconds |-> seconds]

CanAppend == Len(ciCalls) < MaxCheckIns

----------------------------------------------------------------------------
(* The state once <App /> is mounted: the store is empty and each          *)
(* watcher's effect has run up to its first await.  On the web every       *)
(* watcher has returned already.                                           *)
Start(casts) ==
    /\ now = StartTime
    /\ ticks = 0
    /\ platform \in {"web", "native"}
    /\ cast \in casts
    /\ parked = NoLoops
    /\ profile = NoProfile
    /\ checkIns = <<>>
    /\ alerts = <<>>
    /\ updates = <<>>
    /\ ciCalls = <<>>
    /\ alCalls = <<>>
    /\ notifications = <<>>
    /\ steps = <<>>
    /\ failed = {}
    /\ unmounted = FALSE
    /\ shakePc = IF platform = "web" THEN "idle" ELSE "isAvailable"
    /\ subscription = "null"
    /\ lastShakeTime = 0
    /\ lastSample = NoSample
    /\ matched = 0
    /\ noisePc = IF platform = "web" THEN "idle" ELSE "getPermissions"
    /\ noiseCancelled = FALSE
    /\ lastNoiseAlert = 0
    /\ maxLevel = SILENCE
    /\ noiseWake = 0
    /\ lightPc = IF platform = "web" THEN "idle" ELSE "getPermissions"
    /\ lightCancelled = FALSE
    /\ lastLightAlert = 0
    /\ lightWake = 0
    /\ StartScreens

Init == Start(Solo)

(* Time passes. *)
Tick ==
    /\ ticks < MaxTicks
    /\ \E d \in Deltas : now' = now + d
    /\ ticks' = ticks + 1
    /\ UNCHANGED <<screenVars,
                   platform, cast, parked, storeVars, notifications, steps, failed, unmounted,
                   shakeVars, noiseVars, lightVars>>

----------------------------------------------------------------------------
(* Event Store operations reached from the screens *)

(* AuthScreen: setProfile({...}) *)
SetProfileTo(p) ==
    /\ "auth" \in cast
    /\ ~unmounted
    /\ Len(updates) < MaxPending
    /\ updates' = setProfile(updates, p)
    /\ UNCHANGED <<screenVars,
                   now, ticks, platform, cast, parked, profile, checkIns, alerts, ciCalls,
                   alCalls, notifications, steps, failed, unmounted, shakeVars, noiseVars, lightVars>>

SetProfile == \E p \in Profiles : SetProfileTo(p)

(* CheckInScreen.handleConfirm: addCheckIn(selectedMood, bodyCopy) *)
ManualCheckIn ==
    /\ "checkin" \in cast
    /\ ~unmounted
    /\ Len(updates) < MaxPending
    /\ CanAppend
    /\ \E in \in ManualInputs, r \in Randoms :
          /\ updates' = addCheckIn(updates, now, r, in[1], in[2])
          /\ ciCalls' = Append(ciCalls, NewCheckIn(now, r, in[1], in[2]))
    /\ UNCHANGED <<screenVars,
                   now, ticks, platform, cast, parked, profile, checkIns, alerts, alCalls,
                   notifications, steps, failed, unmounted, shakeVars, noiseVars, lightVars>>

(* CheckInScreen.handleConfirm with selectedMood = mood and selectedBody =  *)
(* body: the arguments it passes to addCheckIn.                            *)
handleConfirm(mood, body) ==
    << IF mood = "idk" THEN "idk" ELSE mood,
       IF Len(body) > 0 THEN body ELSE <<"No body notes added this time">> >>

(* React renders UserProvider: every queued update is applied, in order.   *)
(* Nothing is rendered once <App /> is torn down.                          *)
Render ==
    /\ ~unmounted
    /\ updates # <<>>
    /\ profile' = Rendered.profile
    /\ checkIns' = Rendered.checkIns
    /\ alerts' = Rendered.alerts
    /\ updates' = <<>>
    /\ UNCHANGED <<screenVars,
                   now, ticks, platform, cast, parked, ciCalls, alCalls, notifications, steps, failed,
                   unmounted, shakeVars, noiseVars, lightVars>>

(* Mutant: the alert event is logged before the check-in. *)
EmitAlertFirst(cue, mood, symptoms, type, message, notes) ==
    \E r1, r2 \in Randoms :
       /\ updates' = addCheckIn(logAlertEvent(updates, now, r2, type, message),
                                now, r1, mood, symptoms)
       /\ ciCalls' = Append(ciCalls, NewCheckIn(now, r1, mood, symptoms))
       /\ alCalls' = Append(alCalls, NewAlert(now, r2, type, message))
       /\ notifications' = notifications \o notes
       /\ steps' = cue \o <<"logAlertEvent", "addCheckIn">>
                       \o [i \in 1..Len(notes) |-> "scheduleNotification"]
       /\ UNCHANGED <<profile, checkIns, alerts, failed>>

(* What a watcher does on trigger: its cue (the movement watcher's         *)
(* Haptics.notificationAsync), addCheckIn, logAlertEvent, then the         *)
(* notification requests.                                                  *)
Emit(cue, mood, symptoms, type, message, notes) ==
    \E r1, r2 \in Randoms :
       /\ updates' = logAlertEvent(addCheckIn(updates, now, r1, mood, symptoms),
                                   now, r2, type, message)
       /\ ciCalls' = Append(ciCalls, NewCheckIn(now, r1, mood, symptoms))
       /\ alCalls' = Append(alCalls, NewAlert(now, r2, type, message))
       /\ notifications' = notifications \o notes
       /\ steps' = cue \o <<"addCheckIn", "logAlertEvent">>
                       \o [i \in 1..Len(notes) |-> "scheduleNotification"]
       /\ UNCHANGED <<profile, checkIns, alerts, failed>>

NoEmit == UNCHANGED <<storeVars, notifications, steps, failed>>

(* <App /> is torn down: the three effect cleanups run. *)
Teardown ==
    /\ ~unmounted
    /\ unmounted' = TRUE
    /\ subscription' = IF subscription = "set" THEN "removed" ELSE subscription
    /\ noiseCancelled' = TRUE
    /\ lightCancelled' = TRUE
    /\ UNCHANGED <<screenVars,
                   now, ticks, platform, cast, parked, storeVars, notifications, steps, failed,
                   shakePc, lastShakeTime, lastSample, matched,
                   noisePc, lastNoiseAlert, maxLevel, noiseWake,
                   lightPc, lastLightAlert, lightWake>>

(* The polling loops the watcher actions act on, as a record. *)
FocusedLoops(live) ==
    [live |-> live,
     noisePc |-> noisePc, noiseCancelled |-> noiseCancelled,
     lastNoiseAlert |-> lastNoiseAlert, maxLevel |-> maxLevel,
     noiseWake |-> noiseWake,
     lightPc |-> lightPc, lightCancelled |-> lightCancelled,
     lastLightAlert |-> lastLightAlert, lightWake |-> lightWake]

(* The effects of the watchers are run again while the app stays up (the   *)
(* view is torn down and mounted again): React runs the three cleanups     *)
(* and then the three effects.  Each effect starts a new closure with its  *)
(* own cancelled, lastNoiseAlert, ... ; the loops of the closures that     *)
(* were cleaned up go on from where they are, with cancelled = true.       *)
(* The model follows the first time the effects are run again.             *)
Remount ==
    /\ ~unmounted
    /\ parked = NoLoops
    /\ parked' = [FocusedLoops(FALSE) EXCEPT !.noiseCancelled = TRUE,
                                             !.lightCancelled = TRUE]
    /\ shakePc' = IF platform = "web" THEN "idle" ELSE "isAvailable"
    /\ subscription' = "null"
    /\ lastShakeTime' = 0
    /\ noisePc' = IF platform = "web" THEN "idle" ELSE "getPermissions"
    /\ noiseCancelled' = FALSE
    /\ lastNoiseAlert' = 0
    /\ maxLevel' = SILENCE
    /\ noiseWake' = 0
    /\ lightPc' = IF platform = "web" THEN "idle" ELSE "getPermissions"
    /\ lightCancelled' = FALSE
    /\ lastLightAlert' = 0
    /\ lightWake' = 0
    /\ UNCHANGED <<screenVars,
                   now, ticks, platform, cast, storeVars, notifications, steps,
                   failed, unmounted, lastSample, matched>>

(* The loops of the other run of the effects come to act: the watcher      *)
(* actions take their steps from here on, and the loops that acted so far  *)
(* wait.                                                                   *)
Switch ==
    /\ parked # NoLoops
    /\ parked' = FocusedLoops(~parked.live)
    /\ noisePc' = parked.noisePc
    /\ noiseCancelled' = parked.noiseCancelled
    /\ lastNoiseAlert' = parked.lastNoiseAlert
    /\ maxLevel' = parked.maxLevel
    /\ noiseWake' = parked.noiseWake
    /\ lightPc' = parked.lightPc
    /\ lightCancelled' = parked.lightCancelled
    /\ lastLightAlert' = parked.lastLightAlert
    /\ lightWake' = parked.lightWake
    /\ UNCHANGED <<screenVars,
                   now, ticks, platform, cast, storeVars, notifications, steps,
                   failed, unmounted, shakeVars>>

(* Mutant: a rejected notification request ends the watchers. *)
NotificationFailsFatal ==
    /\ Cardinality(failed) < MaxFailures
    /\ \E i \in (1..Len(notifications)) \ failed : failed' = failed \cup {i}
    /\ shakePc' = "idle"
    /\ noisePc' = "idle"
    /\ lightPc' = "idle"
    /\ UNCHANGED <<screenVars,
                   now, ticks, platform, cast, parked, storeVars, notifications, steps,
                   unmounted, subscription, lastShakeTime, lastSample, matched,
                   noiseCancelled, lastNoiseAlert, maxLevel, noiseWake,
                   lightCancelled, lastLightAlert, lightWake>>

(* The promise of a Notifications.scheduleNotificationAsync request is     *)
(* rejected: .catch((err) => console.warn(...)).  A promise that is        *)
(* fulfilled has no handler.                                               *)
NotificationFails ==
    /\ Cardinality(failed) < MaxFailures
    /\ \E i \in (1..Len(notifications)) \ failed : failed' = failed \cup {i}
    /\ UNCHANGED <<screenVars,
                   now, ticks, platform, cast, parked, storeVars, notifications, steps,
                   unmounted, shakeVars, noiseVars, lightVars>>

----------------------------------------------------------------------------
(* GlobalShakeWatcher *)

(* total * total, for total = Math.sqrt(x * x + y * y + z * z) *)
TotalSq(v) == v[1] * v[1] + v[2] * v[2] + v[3] * v[3]

(* Mutant: the cooldown is not looked at. *)
ShakeFiresNoCooldown(v, t, last) ==
    TotalSq(v) > SHAKE_THRESHOLD * SHAKE_THRESHOLD

(* Mutant: a trigger is let through once the cooldown is reached. *)
ShakeFiresAtCooldown(v, t, last) ==
    /\ TotalSq(v) > SHAKE_THRESHOLD * SHAKE_THRESHOLD
    /\ t - last >= SHAKE_COOLDOWN_MS

(* Mutant: the cooldown is taken in seconds. *)
ShakeFiresSeconds(v, t, last) ==
    /\ TotalSq(v) > SHAKE_THRESHOLD * SHAKE_THRESHOLD
    /\ t - last > SHAKE_COOLDOWN_MS \div 1000

(* total > SHAKE_THRESHOLD && now - lastShakeTime > COOLDOWN_MS *)
ShakeFires(v, t, last) ==
    /\ TotalSq(v) > SHAKE_THRESHOLD * SHAKE_THRESHOLD
    /\ t - last > SHAKE_COOLDOWN_MS

(* The check-ins and alert events the movement watcher has made. *)
IsShakeCheckIn(c) == c.symptoms = ShakeSymptoms
IsShakeAlert(a) == a.message = ShakeMessage
IsNoiseCheckIn(c) == c.symptoms = NoiseSymptoms
IsNoiseAlert(a) == a.message = NoiseMessage
IsLightCheckIn(c) == c.symptoms = LightSymptoms
IsLightAlert(a) == a.message = LightMessage

(* await Accelerometer.isAvailableAsync() settles: setup() returns when    *)
(* the sensor is not available (a rejection ends it as well), and adds     *)
(* the listener when it is.                                                *)
ShakeAvailable(available) ==
    /\ "shake" \in cast
    /\ shakePc = "isAvailable"
    /\ IF available
       THEN /\ shakePc' = "listening"
            /\ subscription' = "set"
       ELSE /\ shakePc' = "unavailable"
            /\ UNCHANGED subscription
    /\ UNCHANGED <<screenVars,
                   now, ticks, platform, cast, parked, storeVars, notifications, steps, failed, unmounted,
                   lastShakeTime, lastSample, matched, noiseVars, lightVars>>

ShakeSetup == \E available \in BOOLEAN : ShakeAvailable(available)

(* The stream of samples of the movement scenario: magnitudes 1.0, 2.5     *)
(* and 2.6, one update interval apart, the first with no trigger before    *)
(* it.  StreamStep is how much of the stream the samples delivered last    *)
(* make up, once v is delivered too.                                       *)
Stream == <<10, 25, 26>>

IsNorm(v, n) == TotalSq(v) = n * n

StreamStep(v) ==
    IF /\ matched \in 1..(Len(Stream) - 1)
       /\ IsNorm(v, Stream[matched + 1])
       /\ now = lastSample.at + UPDATE_INTERVAL_MS
    THEN matched + 1
    ELSE IF IsNorm(v, Stream[1]) /\ lastShakeTime = 0 THEN 1 ELSE 0

(* The accelerometer delivers {x, y, z} to the listener.  The history      *)
(* keeps the sample, its time, the time of the trigger before it, and      *)
(* how many check-ins and alert events the watcher had made before it.     *)
ShakeSample(v) ==
    /\ "shake" \in cast
    /\ shakePc = "listening"
    /\ subscription = "set"
    /\ CanAppend
    /\ lastSample' = [v |-> v, at |-> now, last |-> lastShakeTime,
                       ci |-> Len(SelectSeq(ciCalls, IsShakeCheckIn)),
                       al |-> Len(SelectSeq(alCalls, IsShakeAlert))]
    /\ matched' = StreamStep(v)
    /\ IF ShakeFires(v, now, lastShakeTime)
       THEN /\ lastShakeTime' = now
            /\ Emit(<<"haptic">>, "angry", ShakeSymptoms, ShakeAlertType, ShakeMessage,
                    << Notification("high_risk_shake", 0) >>)
       ELSE /\ UNCHANGED lastShakeTime
            /\ NoEmit
    /\ UNCHANGED <<screenVars,
                   now, ticks, platform, cast, parked, unmounted, shakePc, subscription,
                   noiseVars, lightVars>>

ShakeListener == \E v \in Samples : ShakeSample(v)

----------------------------------------------------------------------------
(* GlobalNoiseWatcher *)

(* Mutant: the peak of the window is not looked at. *)
NoiseFiresOnCooldown(level, t, last) ==
    t - last > NOISE_COOLDOWN_MS

(* Mutant: one cooldown for the noise and the light watcher. *)
NoiseFiresShared(level, t, last) ==
    /\ level > VERY_LOUD_THRESHOLD
    /\ t - last > NOISE_COOLDOWN_MS
    /\ t - lastLightAlert > NOISE_COOLDOWN_MS

(* maxLevel > VERY_LOUD_THRESHOLD && now - lastNoiseAlert > COOLDOWN_MS *)
NoiseFires(level, t, last) ==
    /\ level > VERY_LOUD_THRESHOLD
    /\ t - last > NOISE_COOLDOWN_MS

(* Mutant: the loop does not look at cancelled. *)
NoiseLoopHeadDeaf ==
    /\ noisePc' = "prepare"
    /\ maxLevel' = SILENCE

(* while (!cancelled) { const recording = ...; let maxLevel = -160;        *)
(* await recording.prepareToRecordAsync(...)                               *)
NoiseLoopHead ==
    IF noiseCancelled
    THEN /\ noisePc' = "resetAudioMode"
         /\ UNCHANGED maxLevel
    ELSE /\ noisePc' = "prepare"
         /\ maxLevel' = SILENCE

(* Mutant: inside the cooldown the loop waits for the cooldown to end. *)
NoiseEvaluateWaiting ==
    /\ IF NoiseFires(maxLevel, now, lastNoiseAlert)
       THEN /\ lastNoiseAlert' = now
            /\ Emit(<<>>, "overwhelmed", NoiseSymptoms, NoiseAlertType, NoiseMessage,
                    << Notification("noise_high", 0),
                       Notification("noise_followup", FOLLOWUP_SECONDS) >>)
       ELSE /\ UNCHANGED lastNoiseAlert
            /\ NoEmit
    /\ IF noiseCancelled
       THEN /\ noisePc' = "resetAudioMode"
            /\ UNCHANGED noiseWake
       ELSE /\ noisePc' = "sleep"
            /\ noiseWake' = IF now - lastNoiseAlert' > NOISE_COOLDOWN_MS
                            THEN now + NOISE_GAP_MS
                            ELSE lastNoiseAlert' + NOISE_COOLDOWN_MS

(* Mutant: a sample over the threshold stamps the time also when the       *)
(* cooldown suppresses it.                                                 *)
NoiseEvaluateStamping ==
    /\ IF NoiseFires(maxLevel, now, lastNoiseAlert)
       THEN /\ lastNoiseAlert' = now
            /\ Emit(<<>>, "overwhelmed", NoiseSymptoms, NoiseAlertType, NoiseMessage,
                    << Notification("noise_high", 0),
                       Notification("noise_followup", FOLLOWUP_SECONDS) >>)
       ELSE /\ lastNoiseAlert' = IF maxLevel > VERY_LOUD_THRESHOLD THEN now
                                 ELSE lastNoiseAlert
            /\ NoEmit
    /\ IF noiseCancelled
       THEN /\ noisePc' = "resetAudioMode"
            /\ UNCHANGED noiseWake
       ELSE /\ noisePc' = "sleep"
            /\ noiseWake' = now + NOISE_GAP_MS

(* The rest of one loop iteration, from const now = Date.now() to the      *)
(* await of the 30 s gap.                                                  *)
NoiseEvaluate ==
    /\ IF NoiseFires(maxLevel, now, lastNoiseAlert)
       THEN /\ lastNoiseAlert' = now
            /\ Emit(<<>>, "overwhelmed", NoiseSymptoms, NoiseAlertType, NoiseMessage,
                    << Notification("noise_high", 0),
                       Notification("noise_followup", FOLLOWUP_SECONDS) >>)
       ELSE /\ UNCHANGED lastNoiseAlert
            /\ NoEmit
    /\ IF noiseCancelled
       THEN /\ noisePc' = "resetAudioMode"
            /\ UNCHANGED noiseWake
       ELSE /\ noisePc' = "sleep"
            /\ noiseWake' = now + NOISE_GAP_MS

(* await Audio.getPermissionsAsync() settles; a rejection ends the         *)
(* function in its catch.                                                  *)
NoiseGetPermissions ==
    /\ "noise" \in cast
    /\ noisePc = "getPermissions"
    /\ \E outcome \in Statuses \cup {"throws"} :
          noisePc' = CASE outcome = "granted" -> "setAudioMode"
                       [] outcome = "denied" -> "requestPermissions"
                       [] outcome = "throws" -> "idle"
    /\ UNCHANGED <<screenVars,
                   now, ticks, platform, cast, parked, storeVars, notifications, steps, failed, unmounted,
                   shakeVars, noiseCancelled, lastNoiseAlert, maxLevel, noiseWake,
                   lightVars>>

(* Mutant: a denied request is made again. *)
NoiseRequestedAgain(outcome) ==
    /\ "noise" \in cast
    /\ noisePc = "requestPermissions"
    /\ noisePc' = CASE outcome = "granted" -> "setAudioMode"
                   [] outcome = "denied" -> "getPermissions"
                   [] outcome = "throws" -> "idle"
    /\ UNCHANGED <<screenVars,
                   now, ticks, platform, cast, parked, storeVars, notifications, steps, failed, unmounted,
                   shakeVars, noiseCancelled, lastNoiseAlert, maxLevel, noiseWake,
                   lightVars>>

(* await Audio.requestPermissionsAsync() settles: without the permission   *)
(* the function returns, and a rejection ends it in its catch.             *)
NoiseRequested(outcome) ==
    /\ "noise" \in cast
    /\ noisePc = "requestPermissions"
    /\ noisePc' = CASE outcome = "granted" -> "setAudioMode"
                   [] outcome = "denied" -> "denied"
                   [] outcome = "throws" -> "idle"
    /\ UNCHANGED <<screenVars,
                   now, ticks, platform, cast, parked, storeVars, notifications, steps, failed, unmounted,
                   shakeVars, noiseCancelled, lastNoiseAlert, maxLevel, noiseWake,
                   lightVars>>

NoiseRequestPermissions ==
    \E outcome \in Statuses \cup {"throws"} : NoiseRequested(outcome)

(* await Audio.setAudioModeAsync({allowsRecordingIOS: true, ...}) settles. *)
NoiseSetAudioMode ==
    /\ "noise" \in cast
    /\ noisePc = "setAudioMode"
    /\ \E ok \in BOOLEAN :
          IF ok
          THEN NoiseLoopHead
          ELSE /\ noisePc' = "idle"
               /\ UNCHANGED maxLevel
    /\ UNCHANGED <<screenVars,
                   now, ticks, platform, cast, parked, storeVars, notifications, steps, failed, unmounted,
                   shakeVars, noiseCancelled, lastNoiseAlert, noiseWake, lightVars>>

(* Mutant: a rejected prepareToRecordAsync() ends the function. *)
NoisePrepareFatal ==
    /\ "noise" \in cast
    /\ noisePc = "prepare"
    /\ CanAppend
    /\ \E ok \in BOOLEAN :
          /\ noisePc' = IF ok THEN "start" ELSE "idle"
          /\ UNCHANGED <<storeVars, notifications, steps, failed, lastNoiseAlert,
                         noiseWake>>
    /\ UNCHANGED <<screenVars,
                   now, ticks, platform, cast, parked, unmounted, shakeVars,
                   noiseCancelled, maxLevel, lightVars>>

(* await recording.prepareToRecordAsync() settles. *)
NoisePrepare ==
    /\ "noise" \in cast
    /\ noisePc = "prepare"
    /\ CanAppend
    /\ \E ok \in BOOLEAN :
          IF ok
          THEN /\ noisePc' = "start"
               /\ UNCHANGED <<storeVars, notifications, steps, failed, lastNoiseAlert, noiseWake>>
          ELSE NoiseEvaluate
    /\ UNCHANGED <<screenVars,
                   now, ticks, platform, cast, parked, unmounted, shakeVars,
                   noiseCancelled, maxLevel, lightVars>>

(* await recording.startAsync() settles. *)
NoiseStart ==
    /\ "noise" \in cast
    /\ noisePc = "start"
    /\ CanAppend
    /\ \E ok \in BOOLEAN :
          IF ok
          THEN /\ noisePc' = "window"
               /\ noiseWake' = now + NOISE_WINDOW_MS
               /\ UNCHANGED <<storeVars, notifications, steps, failed, lastNoiseAlert>>
          ELSE NoiseEvaluate
    /\ UNCHANGED <<screenVars,
                   now, ticks, platform, cast, parked, unmounted, shakeVars,
                   noiseCancelled, maxLevel, lightVars>>

(* The recording reports a status with a metering value. *)
NoiseStatusUpdate ==
    /\ "noise" \in cast
    /\ noisePc \in {"window", "stop"}
    /\ \E metering \in Meterings :
          /\ metering > maxLevel
          /\ maxLevel' = metering
    /\ UNCHANGED <<screenVars,
                   now, ticks, platform, cast, parked, storeVars, notifications, steps, failed, unmounted,
                   shakeVars, noisePc, noiseCancelled, lastNoiseAlert, noiseWake,
                   lightVars>>

(* The 2.5 s timer fires: await recording.stopAndUnloadAsync() *)
NoiseWindowEnd ==
    /\ "noise" \in cast
    /\ noisePc = "window"
    /\ now >= noiseWake
    /\ noisePc' = "stop"
    /\ UNCHANGED <<screenVars,
                   now, ticks, platform, cast, parked, storeVars, notifications, steps, failed, unmounted,
                   shakeVars, noiseCancelled, lastNoiseAlert, maxLevel, noiseWake,
                   lightVars>>

(* await recording.stopAndUnloadAsync() settles; a rejection is caught. *)
NoiseStop ==
    /\ "noise" \in cast
    /\ noisePc = "stop"
    /\ CanAppend
    /\ NoiseEvaluate
    /\ UNCHANGED <<screenVars,
                   now, ticks, platform, cast, parked, unmounted, shakeVars,
                   noiseCancelled, maxLevel, lightVars>>

(* The 30 s timer fires. *)
NoiseSleepEnd ==
    /\ "noise" \in cast
    /\ noisePc = "sleep"
    /\ now >= noiseWake
    /\ NoiseLoopHead
    /\ UNCHANGED <<screenVars,
                   now, ticks, platform, cast, parked, storeVars, notifications, steps, failed, unmounted,
                   shakeVars, noiseCancelled, lastNoiseAlert, noiseWake, lightVars>>

(* await Audio.setAudioModeAsync({allowsRecordingIOS: false}) settles. *)
NoiseResetAudioMode ==
    /\ "noise" \in cast
    /\ noisePc = "resetAudioMode"
    /\ noisePc' = "done"
    /\ UNCHANGED <<screenVars,
                   now, ticks, platform, cast, parked, storeVars, notifications, steps, failed, unmounted,
                   shakeVars, noiseCancelled, lastNoiseAlert, maxLevel, noiseWake,
                   lightVars>>

----------------------------------------------------------------------------
(* GlobalLightWatcher *)

(* level >= VERY_BRIGHT_THRESHOLD && now - lastLightAlert > COOLDOWN_MS *)
LightFires(level, t, last) ==
    /\ level >= VERY_BRIGHT_THRESHOLD
    /\ t - last > LIGHT_COOLDOWN_MS

(* while (!cancelled) { let level = 0;                                     *)
(* level = await Brightness.getSystemBrightnessAsync()                     *)
LightLoopHead ==
    lightPc' = IF lightCancelled THEN "done" ELSE "getSystemBrightness"

(* The rest of one loop iteration, from setLightDebug(level) to the await  *)
(* of the 30 s gap.                                                        *)
LightEvaluate(level) ==
    /\ IF LightFires(level, now, lastLightAlert)
       THEN /\ lastLightAlert' = now
            /\ Emit(<<>>, "overwhelmed", LightSymptoms, LightAlertType, LightMessage,
                    << Notification("light_high", 0) >>)
       ELSE /\ UNCHANGED lastLightAlert
            /\ NoEmit
    /\ IF lightCancelled
       THEN /\ lightPc' = "done"
            /\ UNCHANGED lightWake
       ELSE /\ lightPc' = "sleep"
            /\ lightWake' = now + LIGHT_GAP_MS

(* await Brightness.getPermissionsAsync() settles. *)
LightGetPermissions ==
    /\ "light" \in cast
    /\ lightPc = "getPermissions"
    /\ \E outcome \in Statuses \cup {"throws"} :
          CASE outcome = "granted" -> LightLoopHead
            [] outcome = "denied" -> lightPc' = "requestPermissions"
            [] outcome = "throws" -> lightPc' = "idle"
    /\ UNCHANGED <<screenVars,
                   now, ticks, platform, cast, parked, storeVars, notifications, steps, failed, unmounted,
                   shakeVars, noiseVars, lightCancelled, lastLightAlert, lightWake>>

(* await Brightness.requestPermissionsAsync() settles. *)
LightRequested(outcome) ==
    /\ "light" \in cast
    /\ lightPc = "requestPermissions"
    /\ CASE outcome = "granted" -> LightLoopHead
         [] outcome = "denied" -> lightPc' = "denied"
         [] outcome = "throws" -> lightPc' = "idle"
    /\ UNCHANGED <<screenVars,
                   now, ticks, platform, cast, parked, storeVars, notifications, steps, failed, unmounted,
                   shakeVars, noiseVars, lightCancelled, lastLightAlert, lightWake>>

LightRequestPermissions ==
    \E outcome \in Statuses \cup {"throws"} : LightRequested(outcome)

(* A brightness read resolves to level (or, for the second read, is        *)
(* rejected and level stays 0), and the iteration runs on.                 *)
LightReads(level) ==
    /\ "light" \in cast
    /\ lightPc \in {"getSystemBrightness", "getBrightness"}
    /\ CanAppend
    /\ LightEvaluate(level)
    /\ UNCHANGED <<screenVars,
                   now, ticks, platform, cast, parked, unmounted, shakeVars, noiseVars,
                   lightCancelled>>

(* await Brightness.getSystemBrightnessAsync() settles: with a level, or   *)
(* with a rejection and then await Brightness.getBrightnessAsync().        *)
LightGetSystemBrightness ==
    /\ lightPc = "getSystemBrightness"
    /\ \/ \E level \in Levels : LightReads(level)
       \/ /\ "light" \in cast
          /\ CanAppend
          /\ lightPc' = "getBrightness"
          /\ UNCHANGED <<screenVars,
                         now, ticks, platform, cast, parked, storeVars, notifications, steps, failed,
                         unmounted, shakeVars, noiseVars, lightCancelled,
                         lastLightAlert, lightWake>>

(* await Brightness.getBrightnessAsync() settles; on a rejection level     *)
(* stays 0.                                                                *)
LightGetBrightness ==
    /\ lightPc = "getBrightness"
    /\ \E level \in Levels \cup {0} : LightReads(level)

(* The 30 s timer fires. *)
LightSleepEnd ==
    /\ "light" \in cast
    /\ lightPc = "sleep"
    /\ now >= lightWake
    /\ LightLoopHead
    /\ UNCHANGED <<screenVars,
                   now, ticks, platform, cast, parked, storeVars, notifications, steps, failed, unmounted,
                   shakeVars, noiseVars, lightCancelled, lastLightAlert, lightWake>>

----------------------------------------------------------------------------
(* MoodOverviewScreen and MoodStatisticsScreen *)

DAY_MS == 24 * 60 * 60 * 1000

(* One character of String.prototype.toLowerCase(). *)
LowerChar(c) ==
    CASE c = "A" -> "a" [] c = "B" -> "b" [] c = "C" -> "c" [] c = "D" -> "d"
      [] c = "E" -> "e" [] c = "F" -> "f" [] c = "G" -> "g" [] c = "H" -> "h"
      [] c = "I" -> "i" [] c = "J" -> "j" [] c = "K" -> "k" [] c = "L" -> "l"
      [] c = "M" -> "m" [] c = "N" -> "n" [] c = "O" -> "o" [] c = "P" -> "p"
      [] c = "Q" -> "q" [] c = "R" -> "r" [] c = "S" -> "s" [] c = "T" -> "t"
      [] c = "U" -> "u" [] c = "V" -> "v" [] c = "W" -> "w" [] c = "X" -> "x"
      [] c = "Y" -> "y" [] c = "Z" -> "z" [] OTHER -> c

(* Mutant: the text is searched as it was written. *)
toLowerCaseNot(s) == s

(* String.prototype.toLowerCase() *)
toLowerCase(s) ==
    LET RECURSIVE lower(_)
        lower(i) == IF i > Len(s) THEN ""
                    ELSE LowerChar(SubSeq(s, i, i)) \o lower(i + 1)
    IN  lower(1)

(* Array.prototype.join(sep) *)
RECURSIVE join(_, _)
join(syms, sep) ==
    IF syms = <<>> THEN ""
    ELSE IF Len(syms) = 1 THEN syms[1]
    ELSE syms[1] \o sep \o join(Tail(syms), sep)

(* Mutant: the first four characters of the marker are looked for. *)
includesStart(text, marker) ==
    \E i \in 1..(Len(text) - 3) : SubSeq(text, i, i + 3) = SubSeq(marker, 1, 4)

(* String.prototype.includes(marker) *)
includes(text, marker) ==
    \E i \in 1..(Len(text) - Len(marker) + 1) :
       SubSeq(text, i, i + Len(marker) - 1) = marker

(* isSensorLike(entry): the entry carries source "sensor", or its          *)
(* symptoms, joined and in lower case, hold one of the three markers.      *)
isSensorLike(entry) ==
    IF "source" \in DOMAIN entry /\ entry.source = "sensor" THEN TRUE
    ELSE LET text == toLowerCase(join(entry.symptoms, " "))
         IN  \/ includes(text, "phone shaken hard")
             \/ includes(text, "very loud environment")
             \/ includes(text, "very bright screen")

(* getTimestampMs(ts) of a number. *)
getTimestampMs(ts) == ts

(* new Date(ms).toDateString(), in UTC: the day the instant falls on. *)
toDateString(ms) == ms \div DAY_MS

(* c._ts >= now - days * 24 * 60 * 60 * 1000, computed without leaving     *)
(* 32 bits.                                                                *)
Since(ts, t, days) ==
    \/ (t - ts) \div DAY_MS < days
    \/ (t - ts) \div DAY_MS = days /\ (t - ts) % DAY_MS = 0

(* MoodOverviewScreen: last7Manual, the entries of the last seven days     *)
(* that are not sensor-like; total is its length.                          *)
last7Manual(log, t) ==
    LET keep(c) == Since(getTimestampMs(c.timestamp), t, 7) /\ ~isSensorLike(c)
    IN  SelectSeq(log, keep)

(* MoodStatisticsScreen: todayManual, before it is sorted. *)
todayManual(log, t) ==
    LET keep(c) == /\ toDateString(getTimestampMs(c.timestamp)) = toDateString(t)
                   /\ ~isSensorLike(c)
    IN  SelectSeq(log, keep)

(* MoodStatisticsScreen: recentManual, of the last four weeks. *)
recentManual(log, t) ==
    LET keep(c) == Since(getTimestampMs(c.timestamp), t, 28) /\ ~isSensorLike(c)
    IN  SelectSeq(log, keep)

----------------------------------------------------------------------------
(* AsyncStorage *)

(* AsyncStorage.getItem(key) issued; its result goes to the awaiting       *)
(* function `then`.                                                        *)
GetItem(key, then) == [op |-> "get", key |-> key, then |-> then]

(* AsyncStorage.setItem(key, value) issued. *)
SetItem(key, value) == [op |-> "set", key |-> key, value |-> value]

(* What storage holds once setItem(key, value) is served. *)
Stored(key, value) ==
    [k \in DOMAIN storage \cup {key} |-> IF k = key THEN value ELSE storage[k]]

(* A component is unmounted: what its pending getItem calls resolve to     *)
(* reaches no state any more.                                              *)
Orphaned(q, thens) ==
    [i \in 1..Len(q) |->
        IF q[i].op = "get" /\ q[i].then \in thens
        THEN GetItem(q[i].key, "gone")
        ELSE q[i]]

(* JSON.stringify(value) and JSON.parse(raw) of an array. *)
stringify(value) == [json |-> value]
parse(raw) == raw.json

(* String(n) of a number n >= 0, and parseInt(text, 10); NaN is -1. *)
Digits == "0123456789"
NaN == 0 - 1

RECURSIVE String(_)
String(n) ==
    IF n < 10 THEN SubSeq(Digits, n + 1, n + 1)
    ELSE String(n \div 10) \o SubSeq(Digits, (n % 10) + 1, (n % 10) + 1)

DigitOf(c) == CHOOSE d \in 0..9 : SubSeq(Digits, d + 1, d + 1) = c

IsDigit(c) == \E d \in 0..9 : SubSeq(Digits, d + 1, d + 1) = c

parseInt(text) ==
    LET RECURSIVE value(_, _)
        value(i, acc) ==
            IF i > Len(text) \/ ~IsDigit(SubSeq(text, i, i))
            THEN IF i = 1 THEN NaN ELSE acc
            ELSE value(i + 1, acc * 10 + DigitOf(SubSeq(text, i, i)))
    IN  value(1, 0)

----------------------------------------------------------------------------
(* ToolsScreen and ScheduleCalendarScreen *)

SCHEDULE_STORAGE_KEY_PREFIX == "@neuroaura_schedule_"

(* The profiles that sign in on this device: the guest of AuthScreen and   *)
(* a registered user.                                                      *)
Accounts ==
    { [name |-> "friend", email |-> "guest@neuroaura", role |-> "guest"],
      [name |-> "Sam", email |-> "sam@example.com", role |-> "individual"] }

(* What useUser() returns: the value of UserContext.Provider. *)
UserContextValue == [profile |-> profile, checkIns |-> checkIns, alerts |-> alerts]

(* ToolsScreen: const { user } = useUser(); const userId = user?.id || "guest" *)
ToolsUserId ==
    IF "user" \in DOMAIN UserContextValue /\ "id" \in DOMAIN UserContextValue.user
    THEN UserContextValue.user.id
    ELSE "guest"

(* `${SCHEDULE_STORAGE_KEY_PREFIX}${userId}` *)
ScheduleKey(userId) == SCHEDULE_STORAGE_KEY_PREFIX \o userId

(* The schedule tab is opened: ScheduleCalendarScreen mounts with the      *)
(* userId of ToolsScreen; its load effect issues getItem, its save effect  *)
(* issues setItem with the empty list.                                     *)
ScheduleOpen ==
    /\ "tools" \in cast
    /\ scheduleUserId = "closed"
    /\ profile # NoProfile
    /\ Len(io) + 2 <= MaxRequests
    /\ scheduleUserId' = ToolsUserId
    /\ items' = <<>>
    /\ io' = io \o << GetItem(ScheduleKey(ToolsUserId), "scheduleLoad"),
                      SetItem(ScheduleKey(ToolsUserId), stringify(<<>>)) >>
    /\ UNCHANGED <<appVars, chatVars, storage, screenTimePc, usedMinutes, dailyGoal, persisted>>

(* A schedule item is added: setItems((prev) => [...prev, newItem]), and   *)
(* the save effect runs on the new list.  `by` is history: the profile     *)
(* that was signed in.                                                     *)
ScheduleAddItem ==
    /\ "tools" \in cast
    /\ scheduleUserId # "closed"
    /\ profile # NoProfile
    /\ Len(items) < MaxItems
    /\ Len(io) < MaxRequests
    /\ items' = Append(items, [title |-> "Therapy", by |-> profile.email])
    /\ io' = Append(io, SetItem(ScheduleKey(scheduleUserId), stringify(items')))
    /\ UNCHANGED <<appVars, chatVars, storage, scheduleUserId, screenTimePc, usedMinutes,
                   dailyGoal, persisted>>

(* Another tab is opened, or the Tools screen is left. *)
ScheduleClose ==
    /\ "tools" \in cast
    /\ scheduleUserId # "closed"
    /\ scheduleUserId' = "closed"
    /\ items' = <<>>
    /\ io' = Orphaned(io, {"scheduleLoad"})
    /\ UNCHANGED <<appVars, chatVars, storage, screenTimePc, usedMinutes, dailyGoal, persisted>>

(* load() of ScheduleCalendarScreen resumes with raw: a stored array       *)
(* becomes the items, and the save effect runs on them.                    *)
ScheduleLoaded(key) ==
    /\ IF key \in DOMAIN storage /\ "json" \in DOMAIN storage[key]
       THEN /\ items' = parse(storage[key])
            /\ io' = Append(Tail(io), SetItem(ScheduleKey(scheduleUserId), stringify(items')))
       ELSE /\ io' = Tail(io)
            /\ UNCHANGED items
    /\ UNCHANGED <<storage, scheduleUserId, screenTimePc, usedMinutes, dailyGoal, persisted>>

----------------------------------------------------------------------------
(* ScreenTimeRegulatorScreen *)

GOAL_KEY == "@neuroaura_screen_time_goal_minutes"
USAGE_PREFIX == "@neuroaura_screen_time_usage_"
DEFAULT_GOAL == 180

(* Minutes a tap adds to today's usage. *)
Presets == { 15, 30 }

(* todayKey(): the day of the clock, as text. *)
todayKey(t) == String(toDateString(t))

(* `${USAGE_PREFIX}${todayKey()}` *)
UsageKey(t) == USAGE_PREFIX \o todayKey(t)

(* What getItem(key) will resolve to once the requests issued so far are   *)
(* served: the value of the last setItem(key) among them, or what storage  *)
(* holds; "" for null.                                                     *)
Settled(key) ==
    LET sets == { i \in 1..Len(io) : io[i].op = "set" /\ io[i].key = key }
    IN  IF sets # {}
        THEN io[CHOOSE i \in sets : \A j \in sets : j <= i].value.text
        ELSE IF key \in DOMAIN storage THEN storage[key].text ELSE ""

(* The screen mounts: useState(180), useState(0); the load effect issues   *)
(* getItem(GOAL_KEY), the saveGoal effect setItem(GOAL_KEY, "180"), the    *)
(* saveUsage effect setItem(usageKey, "0").                                *)
ScreenTimeOpen ==
    /\ "screentime" \in cast
    /\ screenTimePc = "closed"
    /\ Len(io) + 3 <= MaxRequests
    /\ screenTimePc' = "loadGoal"
    /\ dailyGoal' = DEFAULT_GOAL
    /\ usedMinutes' = 0
    /\ persisted' = Settled(UsageKey(now))
    /\ io' = io \o << GetItem(GOAL_KEY, "loadGoal"),
                      SetItem(GOAL_KEY, [text |-> String(DEFAULT_GOAL)]),
                      SetItem(UsageKey(now), [text |-> String(0)]) >>
    /\ UNCHANGED <<appVars, chatVars, storage, scheduleUserId, items>>

(* addPresetToUsage(minutes), and the saveUsage effect on the new value. *)
AddPresetToUsage ==
    /\ "screentime" \in cast
    /\ screenTimePc # "closed"
    /\ Len(io) < MaxRequests
    /\ \E minutes \in Presets :
          /\ usedMinutes + minutes <= MaxUsage
          /\ usedMinutes' = usedMinutes + minutes
    /\ io' = Append(io, SetItem(UsageKey(now), [text |-> String(usedMinutes')]))
    /\ UNCHANGED <<appVars, chatVars, storage, scheduleUserId, items, screenTimePc,
                   dailyGoal, persisted>>

(* The screen is left. *)
ScreenTimeClose ==
    /\ "screentime" \in cast
    /\ screenTimePc # "closed"
    /\ screenTimePc' = "closed"
    /\ io' = Orphaned(io, {"loadGoal", "loadUsage"})
    /\ UNCHANGED <<appVars, chatVars, storage, scheduleUserId, items, usedMinutes,
                   dailyGoal, persisted>>

(* load() resumes with goalRaw: a stored goal above 0 becomes the goal     *)
(* (and is saved again when it differs); then getItem(usageKey) is issued. *)
GoalLoaded(key) ==
    LET g == IF key \in DOMAIN storage /\ storage[key].text # ""
             THEN parseInt(storage[key].text) ELSE NaN
        goal == IF g # NaN /\ g > 0 THEN g ELSE dailyGoal
    IN  /\ dailyGoal' = goal
        /\ io' = Tail(io) \o << GetItem(UsageKey(now), "loadUsage") >>
                          \o IF goal # dailyGoal
                             THEN << SetItem(GOAL_KEY, [text |-> String(goal)]) >>
                             ELSE << >>
        /\ screenTimePc' = "loadUsage"
        /\ UNCHANGED <<storage, scheduleUserId, items, usedMinutes, persisted>>

(* load() resumes with usageRaw: a stored usage of 0 or more becomes       *)
(* usedMinutes (and is saved again when it differs).                       *)
UsageLoaded(key) ==
    LET u == IF key \in DOMAIN storage /\ storage[key].text # ""
             THEN parseInt(storage[key].text) ELSE NaN
        used == IF u # NaN /\ u >= 0 THEN u ELSE usedMinutes
    IN  /\ usedMinutes' = used
        /\ io' = Tail(io) \o IF used # usedMinutes
                             THEN << SetItem(UsageKey(now), [text |-> String(used)]) >>
                             ELSE << >>
        /\ screenTimePc' = "ready"
        /\ UNCHANGED <<storage, scheduleUserId, items, dailyGoal, persisted>>

----------------------------------------------------------------------------
(* AsyncStorage serves the oldest request: the requests of one app are     *)
(* served in the order they were issued.                                   *)
StorageServes ==
    /\ io # <<>>
    /\ LET r == Head(io)
       IN  CASE r.op = "set" ->
                  /\ storage' = Stored(r.key, r.value)
                  /\ io' = Tail(io)
                  /\ UNCHANGED toolVars
             [] r.op = "get" /\ r.then = "scheduleLoad" -> ScheduleLoaded(r.key)
             [] r.op = "get" /\ r.then = "loadGoal" -> GoalLoaded(r.key)
             [] r.op = "get" /\ r.then = "loadUsage" -> UsageLoaded(r.key)
             [] r.op = "get" /\ r.then = "gone" ->
                  /\ io' = Tail(io)
                  /\ UNCHANGED <<storage, toolVars>>
    /\ UNCHANGED <<appVars, chatVars>>

----------------------------------------------------------------------------
(* YourFriendChat and cometClient *)

(* What the user types into the chat box. *)
Typed == { "hi", " " }

(* String.prototype.trim, on the blanks of Typed. *)
RECURSIVE trim(_)
trim(s) ==
    IF Len(s) = 0 THEN s
    ELSE IF SubSeq(s, 1, 1) = " " THEN trim(SubSeq(s, 2, Len(s)))
    ELSE IF SubSeq(s, Len(s), Len(s)) = " " THEN trim(SubSeq(s, 1, Len(s) - 1))
    ELSE s

(* The chat service takes part in the run when its key is configured. *)
Chatters == { {"chat"}, {"chat", "comet"} }

PPLX_API_KEY == IF "comet" \in cast THEN "key" ELSE ""

(* What fetch can do with a request. *)
FetchOutcomes == { "ok", "no content", "http error", "network failure" }

(* Steps 1 and 2 of sendToComet: keep user and assistant messages, then    *)
(* drop the leading messages that are not the user's.                      *)
RECURSIVE shiftToUser(_)
shiftToUser(filtered) ==
    IF Len(filtered) > 0 /\ filtered[1].role # "user"
    THEN shiftToUser(Tail(filtered))
    ELSE filtered

IsChatRole(m) == m.role = "user" \/ m.role = "assistant"

Filtered(conversation) == shiftToUser(SelectSeq(conversation, IsChatRole))

(* sendToComet(conversation) when fetch does `outcome`: it throws without  *)
(* a key, and otherwise resolves to the reply, or to a soft message.       *)
sendToComet(conversation, outcome) ==
    IF PPLX_API_KEY = ""
    THEN [threw |-> TRUE, posted |-> <<>>, reply |-> ""]
    ELSE [threw |-> FALSE,
          posted |-> Filtered(conversation),
          reply |-> CASE outcome = "ok" -> "reply"
                      [] outcome = "no content" -> "something glitched"
                      [] OTHER -> "trouble thinking"]

(* The state updates of handleSend once sendToComet has settled: the catch *)
(* block appends without the finally block.                                *)
ReplyUpdatesNoFinally(result) ==
    IF result.threw
    THEN << [hook |-> "messages", op |-> "append",
             value |-> [role |-> "assistant", content |-> "trouble connecting"]] >>
    ELSE << [hook |-> "messages", op |-> "append",
             value |-> [role |-> "assistant", content |-> result.reply]],
            [hook |-> "loading", op |-> "set", value |-> FALSE] >>

(* The state updates of handleSend once sendToComet has settled: botMsg or *)
(* the fallback is appended, and finally loading is set to false.          *)
ReplyUpdates(result) ==
    << [hook |-> "messages", op |-> "append",
        value |-> [role |-> "assistant",
                   content |-> IF result.threw THEN "trouble connecting"
                               ELSE result.reply]],
       [hook |-> "loading", op |-> "set", value |-> FALSE] >>

(* One queued update applied to the state of the component. *)
ChatApply(u, st) ==
    CASE u.hook = "messages" /\ u.op = "set" -> [st EXCEPT !.messages = u.value]
      [] u.hook = "messages" /\ u.op = "append" ->
             [st EXCEPT !.messages = Append(st.messages, u.value)]
      [] u.hook = "input" -> [st EXCEPT !.input = u.value]
      [] u.hook = "loading" -> [st EXCEPT !.loading = u.value]

(* The state of the component after the queued updates q. *)
RECURSIVE Flushed(_, _)
Flushed(q, st) ==
    IF q = <<>> THEN st ELSE Flushed(Tail(q), ChatApply(Head(q), st))

ChatState(ms, text, busy) == [messages |-> ms, input |-> text, loading |-> busy]

(* onChangeText={setInput} *)
TypeInput ==
    /\ "chat" \in cast
    /\ Len(chatQueue) < MaxQueued
    /\ \E text \in Typed :
          chatQueue' = Append(chatQueue, [hook |-> "input", op |-> "set", value |-> text])
    /\ UNCHANGED <<appVars, diskVars, toolVars, messages, input, loading, pending, sent,
                   appended>>

(* Send is pressed and accepted: handleSend up to the await, on the        *)
(* messages, input and loading of the render the handler was made in.      *)
HandleSend ==
    /\ "chat" \in cast
    /\ Len(sent) < MaxSends
    /\ LET trimmed == trim(input)
       IN  /\ trimmed # ""
           /\ ~loading
           /\ LET userMsg == [role |-> "user", content |-> trimmed]
                  updatedConversation == Append(messages, userMsg)
              IN  /\ chatQueue' = chatQueue \o
                         << [hook |-> "messages", op |-> "set", value |-> updatedConversation],
                            [hook |-> "input", op |-> "set", value |-> ""],
                            [hook |-> "loading", op |-> "set", value |-> TRUE] >>
                  /\ sent' = Append(sent, updatedConversation)
    /\ pending' = pending + 1
    /\ UNCHANGED <<appVars, diskVars, toolVars, messages, input, loading, appended>>

(* A call of sendToComet settles and handleSend resumes. *)
Reply ==
    /\ "chat" \in cast
    /\ pending > 0
    /\ \E outcome \in FetchOutcomes :
          chatQueue' = chatQueue \o ReplyUpdates(sendToComet(sent[appended + 1], outcome))
    /\ pending' = pending - 1
    /\ appended' = appended + 1
    /\ UNCHANGED <<appVars, diskVars, toolVars, messages, input, loading, sent>>

(* React renders YourFriendChat with the queued updates. *)
ChatRender ==
    /\ "chat" \in cast
    /\ chatQueue # <<>>
    /\ LET st == Flushed(chatQueue, ChatState(messages, input, loading))
       IN  /\ messages' = st.messages
           /\ input' = st.input
           /\ loading' = st.loading
    /\ chatQueue' = <<>>
    /\ UNCHANGED <<appVars, diskVars, toolVars, pending, sent, appended>>

----------------------------------------------------------------------------
(* Specifications *)

Next ==
    \/ Tick
    \/ SetProfile
    \/ ManualCheckIn
    \/ Render
    \/ Teardown
    \/ ShakeSetup
    \/ ShakeListener
    \/ NoiseGetPermissions
    \/ NoiseRequestPermissions
    \/ NoiseSetAudioMode
    \/ NoisePrepare
    \/ NoiseStart
    \/ NoiseStatusUpdate
    \/ NoiseWindowEnd
    \/ NoiseStop
    \/ NoiseSleepEnd
    \/ NoiseResetAudioMode
    \/ LightGetPermissions
    \/ LightRequestPermissions
    \/ LightGetSystemBrightness
    \/ LightGetBrightness
    \/ LightSleepEnd

Spec == Init /\ [][Next]_vars

(* Sign-in over a store the light watcher fills. *)
InitAuthLight == Start(AuthLight)

NextAuthLight ==
    \/ Tick
    \/ SetProfile
    \/ Render
    \/ Teardown
    \/ LightGetPermissions
    \/ LightRequestPermissions
    \/ LightGetSystemBrightness
    \/ LightGetBrightness
    \/ LightSleepEnd

SpecAuthLight == InitAuthLight /\ [][NextAuthLight]_vars

(* The noise watcher and the light watcher, one at a time. *)
InitLoops == Start(Loops)

NextLoops ==
    \/ Tick
    \/ Render
    \/ Teardown
    \/ NoiseGetPermissions
    \/ NoiseRequestPermissions
    \/ NoiseSetAudioMode
    \/ NoisePrepare
    \/ NoiseStart
    \/ NoiseStatusUpdate
    \/ NoiseWindowEnd
    \/ NoiseStop
    \/ NoiseSleepEnd
    \/ NoiseResetAudioMode
    \/ LightGetPermissions
    \/ LightRequestPermissions
    \/ LightGetSystemBrightness
    \/ LightGetBrightness
    \/ LightSleepEnd

SpecLoops == InitLoops /\ [][NextLoops]_vars

(* After teardown the clock reaches the deadline of the timer a loop       *)
(* waits for.                                                              *)
TimerDue ==
    /\ unmounted
    /\ \/ /\ "noise" \in cast
          /\ noisePc \in {"window", "sleep"}
          /\ now < noiseWake
          /\ now' = noiseWake
       \/ /\ "light" \in cast
          /\ lightPc = "sleep"
          /\ now < lightWake
          /\ now' = lightWake
    /\ UNCHANGED <<screenVars,
                   ticks, platform, cast, parked, storeVars, notifications, steps, failed, unmounted,
                   shakeVars, noiseVars, lightVars>>

(* The steps of the two loops. *)
LoopSteps ==
    \/ NoiseGetPermissions
    \/ NoiseRequestPermissions
    \/ NoiseSetAudioMode
    \/ NoisePrepare
    \/ NoiseStart
    \/ NoiseWindowEnd
    \/ NoiseStop
    \/ NoiseSleepEnd
    \/ NoiseResetAudioMode
    \/ LightGetPermissions
    \/ LightRequestPermissions
    \/ LightGetSystemBrightness
    \/ LightGetBrightness
    \/ LightSleepEnd

NextLoopsLive ==
    \/ Tick
    \/ Render
    \/ Teardown
    \/ NoiseGetPermissions
    \/ NoiseRequestPermissions
    \/ NoiseSetAudioMode
    \/ NoisePrepare
    \/ NoiseStart
    \/ NoiseStatusUpdate
    \/ NoiseWindowEnd
    \/ NoiseStop
    \/ NoiseSleepEnd
    \/ NoiseResetAudioMode
    \/ LightGetPermissions
    \/ LightRequestPermissions
    \/ LightGetSystemBrightness
    \/ LightGetBrightness
    \/ LightSleepEnd
    \/ TimerDue

(* Every await of a loop settles and every timer fires. *)
SpecLoopsLive ==
    InitLoops /\ [][NextLoopsLive]_vars /\ WF_vars(LoopSteps) /\ WF_vars(TimerDue)

(* The noise watcher or the light watcher, with its effect run again. *)
InitRemount == Start(Loops)

NextRemount ==
    \/ Tick
    \/ Remount
    \/ Switch
    \/ NoiseGetPermissions
    \/ NoiseRequestPermissions
    \/ NoiseSetAudioMode
    \/ NoisePrepare
    \/ NoiseStart
    \/ NoiseStatusUpdate
    \/ NoiseWindowEnd
    \/ NoiseStop
    \/ NoiseSleepEnd
    \/ NoiseResetAudioMode
    \/ LightGetPermissions
    \/ LightRequestPermissions
    \/ LightGetSystemBrightness
    \/ LightGetBrightness
    \/ LightSleepEnd

SpecRemount == InitRemount /\ [][NextRemount]_vars

(* Manual check-ins while two watchers run, all within one reading of the  *)
(* clock: the calls come as close together as they can.                    *)
InitCrowd == Start(Crowd)

NextCrowd ==
    \/ ManualCheckIn
    \/ Render
    \/ ShakeSetup
    \/ ShakeListener
    \/ LightGetPermissions
    \/ LightRequestPermissions
    \/ LightGetSystemBrightness
    \/ LightGetBrightness

SpecCrowd == InitCrowd /\ [][NextCrowd]_vars

(* The noise loop and the light loop side by side, as <App /> mounts them. *)
InitSiblings == Start(Siblings)

NextSiblings ==
    \/ Tick
    \/ NoiseGetPermissions
    \/ NoiseRequestPermissions
    \/ NoiseSetAudioMode
    \/ NoisePrepare
    \/ NoiseStart
    \/ NoiseStatusUpdate
    \/ NoiseWindowEnd
    \/ NoiseStop
    \/ NoiseSleepEnd
    \/ LightGetPermissions
    \/ LightRequestPermissions
    \/ LightGetSystemBrightness
    \/ LightGetBrightness
    \/ LightSleepEnd

SpecSiblings == InitSiblings /\ [][NextSiblings]_vars

(* The check-in screen right after "Log this check-in" was tapped for the  *)
(* first time, with any mood and any body options selected; the store      *)
(* renders the entry.                                                      *)
InitConfirm ==
    /\ now = StartTime
    /\ ticks = 0
    /\ platform \in {"web", "native"}
    /\ cast = {"checkin"}
    /\ parked = NoLoops
    /\ profile = NoProfile
    /\ checkIns = <<>>
    /\ alerts = <<>>
    /\ \E mood \in MoodKeys, body \in Selections, r \in Randoms :
          LET in == handleConfirm(mood, body)
          IN  /\ updates = addCheckIn(<<>>, now, r, in[1], in[2])
              /\ ciCalls = <<NewCheckIn(now, r, in[1], in[2])>>
    /\ alCalls = <<>>
    /\ notifications = <<>>
    /\ steps = <<>>
    /\ failed = {}
    /\ unmounted = FALSE
    /\ shakePc = IF platform = "web" THEN "idle" ELSE "isAvailable"
    /\ subscription = "null"
    /\ lastShakeTime = 0
    /\ lastSample = NoSample
    /\ matched = 0
    /\ noisePc = IF platform = "web" THEN "idle" ELSE "getPermissions"
    /\ noiseCancelled = FALSE
    /\ lastNoiseAlert = 0
    /\ maxLevel = SILENCE
    /\ noiseWake = 0
    /\ lightPc = IF platform = "web" THEN "idle" ELSE "getPermissions"
    /\ lightCancelled = FALSE
    /\ lastLightAlert = 0
    /\ lightWake = 0
    /\ StartScreens

NextConfirm == Render

SpecConfirm == InitConfirm /\ [][NextConfirm]_vars

(* Sign-in and the schedule calendar. *)
InitSchedule == Start(Planner)

NextSchedule ==
    \/ \E p \in Accounts : SetProfileTo(p)
    \/ Render
    \/ ScheduleOpen
    \/ ScheduleAddItem
    \/ ScheduleClose
    \/ StorageServes

SpecSchedule == InitSchedule /\ [][NextSchedule]_vars

(* The screen-time regulator, opened and left. *)
InitScreenTime == Start(Regulator)

NextScreenTime ==
    \/ ScreenTimeOpen
    \/ AddPresetToUsage
    \/ ScreenTimeClose
    \/ StorageServes

SpecScreenTime == InitScreenTime /\ [][NextScreenTime]_vars

(* The chat alone. *)
InitChat == Start(Chatters)

NextChat ==
    \/ TypeInput
    \/ HandleSend
    \/ Reply
    \/ ChatRender

SpecChat == InitChat /\ [][NextChat]_vars

(* Every call of sendToComet settles, and React renders what is queued. *)
SpecChatLive == InitChat /\ [][NextChat]_vars /\ WF_vars(Reply) /\ WF_vars(ChatRender)

(* The watchers, one at a time, and the store rendering what they log. *)
InitViews == Start(Watchers)

NextViews ==
    \/ Tick
    \/ Render
    \/ ShakeSetup
    \/ ShakeListener
    \/ NoiseGetPermissions
    \/ NoiseRequestPermissions
    \/ NoiseSetAudioMode
    \/ NoisePrepare
    \/ NoiseStart
    \/ NoiseStatusUpdate
    \/ NoiseWindowEnd
    \/ NoiseStop
    \/ NoiseSleepEnd
    \/ LightGetPermissions
    \/ LightRequestPermissions
    \/ LightGetSystemBrightness
    \/ LightGetBrightness
    \/ LightSleepEnd

SpecViews == InitViews /\ [][NextViews]_vars

(* The watchers, one at a time, with notification requests that can be     *)
(* rejected.                                                               *)
InitNotify == Start(Watchers)

NextNotify ==
    \/ Tick
    \/ Render
    \/ NotificationFails
    \/ ShakeSetup
    \/ ShakeListener
    \/ NoiseGetPermissions
    \/ NoiseRequestPermissions
    \/ NoiseSetAudioMode
    \/ NoisePrepare
    \/ NoiseStart
    \/ NoiseStatusUpdate
    \/ NoiseWindowEnd
    \/ NoiseStop
    \/ NoiseSleepEnd
    \/ LightGetPermissions
    \/ LightRequestPermissions
    \/ LightGetSystemBrightness
    \/ LightGetBrightness
    \/ LightSleepEnd

SpecNotify == InitNotify /\ [][NextNotify]_vars

----------------------------------------------------------------------------
(* Properties *)

Reverse(s) == [i \in 1..Len(s) |-> s[Len(s) + 1 - i]]

Stamps(s) == [i \in 1..Len(s) |-> s[i].timestamp]

(* Any two of the times ts, in order, are at least gap apart. *)
Apart(ts, gap) ==
    \A i, j \in 1..Len(ts) : i < j => ts[j] - ts[i] >= gap

(* C1: after any sequence of addCheckIn calls the check-in log holds the   *)
(* entries of the calls, the latest call first, one entry per call: the    *)
(* log as rendered is the call history reversed, and what is on screen     *)
(* before the next render is such a log of the first calls.                *)
C1_CheckInLogNewestFirst ==
    /\ Rendered.checkIns = Reverse(ciCalls)
    /\ Len(Rendered.checkIns) = Len(ciCalls)
    /\ \E k \in 0..Len(ciCalls) : checkIns = Reverse(SubSeq(ciCalls, 1, k))

C1_Witness ==
    /\ updates = <<>>
    /\ Len(ciCalls) = 2
    /\ Len(checkIns) = 2
    /\ checkIns[1] # checkIns[2]
    /\ checkIns[1] = ciCalls[2]

(* C2: after any sequence of logAlertEvent calls the alert log holds the   *)
(* events of the calls, the latest call first, one event per call.         *)
C2_AlertLogNewestFirst ==
    /\ Rendered.alerts = Reverse(alCalls)
    /\ Len(Rendered.alerts) = Len(alCalls)
    /\ \E k \in 0..Len(alCalls) : alerts = Reverse(SubSeq(alCalls, 1, k))

C2_Witness ==
    /\ updates = <<>>
    /\ Len(alCalls) = 2
    /\ Len(alerts) = 2
    /\ alerts[1] # alerts[2]
    /\ alerts[1] = alCalls[2]

(* C3: each watcher emits a check-in and an alert event together, one of   *)
(* each per trigger, and two triggers of one watcher are never closer      *)
(* together than its cooldown (6 s for movement, 5 min for noise and       *)
(* light).                                                                 *)
C3_OncePerCooldown ==
    /\ Stamps(SelectSeq(ciCalls, IsShakeCheckIn)) = Stamps(SelectSeq(alCalls, IsShakeAlert))
    /\ Apart(Stamps(SelectSeq(ciCalls, IsShakeCheckIn)), SHAKE_COOLDOWN_MS)
    /\ Stamps(SelectSeq(ciCalls, IsNoiseCheckIn)) = Stamps(SelectSeq(alCalls, IsNoiseAlert))
    /\ Apart(Stamps(SelectSeq(ciCalls, IsNoiseCheckIn)), NOISE_COOLDOWN_MS)
    /\ Stamps(SelectSeq(ciCalls, IsLightCheckIn)) = Stamps(SelectSeq(alCalls, IsLightAlert))
    /\ Apart(Stamps(SelectSeq(ciCalls, IsLightCheckIn)), LIGHT_COOLDOWN_MS)

C3_Witness ==
    /\ Len(SelectSeq(ciCalls, IsNoiseCheckIn)) = 2
    /\ Len(SelectSeq(alCalls, IsNoiseAlert)) = 2

(* What the movement watcher made of the sample it was given last. *)
ShakeProduced ==
    << Len(SelectSeq(ciCalls, IsShakeCheckIn)) - lastSample.ci,
       Len(SelectSeq(alCalls, IsShakeAlert)) - lastSample.al >>

OverShakeThreshold(v) == TotalSq(v) > SHAKE_THRESHOLD * SHAKE_THRESHOLD

(* C4, as stated: a movement sample over the threshold produces nothing    *)
(* when the previous trigger was less than 6 s before it, and exactly one  *)
(* check-in and one alert event when 6 s or more have passed, 6 s exactly  *)
(* included.                                                               *)
C4_AtLeastCooldown ==
    (lastSample.at # 0 /\ OverShakeThreshold(lastSample.v)) =>
        IF lastSample.last # 0 /\ lastSample.at - lastSample.last < SHAKE_COOLDOWN_MS
        THEN ShakeProduced = <<0, 0>>
        ELSE ShakeProduced = <<1, 1>>

(* C4, amended: a movement sample over the threshold produces nothing      *)
(* when the previous trigger was 6 s or less before it, and exactly one    *)
(* check-in and one alert event when more than 6 s have passed.            *)
C4_MoreThanCooldown ==
    (lastSample.at # 0 /\ OverShakeThreshold(lastSample.v)) =>
        IF lastSample.last # 0 /\ lastSample.at - lastSample.last <= SHAKE_COOLDOWN_MS
        THEN ShakeProduced = <<0, 0>>
        ELSE ShakeProduced = <<1, 1>>

C4_Witness ==
    /\ OverShakeThreshold(lastSample.v)
    /\ lastSample.last # 0
    /\ lastSample.at - lastSample.last > SHAKE_COOLDOWN_MS
    /\ ShakeProduced = <<1, 1>>
    /\ Len(SelectSeq(ciCalls, IsShakeCheckIn)) = 2

(* C5: movement samples of magnitude 1.0, 2.5 and 2.6, 100 ms apart, the   *)
(* first with no trigger before it, give one trigger, on the 2.5 sample:   *)
(* none after 1.0, one at the time of 2.5, and still that one after 2.6.   *)
C5_StreamTriggersOnce ==
    /\ matched = 1 =>
          /\ ShakeProduced = <<0, 0>>
          /\ SelectSeq(ciCalls, IsShakeCheckIn) = <<>>
          /\ SelectSeq(alCalls, IsShakeAlert) = <<>>
    /\ matched = 2 =>
          /\ ShakeProduced = <<1, 1>>
          /\ Stamps(SelectSeq(ciCalls, IsShakeCheckIn)) = <<lastSample.at>>
          /\ Stamps(SelectSeq(alCalls, IsShakeAlert)) = <<lastSample.at>>
    /\ matched = 3 =>
          /\ ShakeProduced = <<0, 0>>
          /\ Stamps(SelectSeq(ciCalls, IsShakeCheckIn))
                = <<lastSample.at - UPDATE_INTERVAL_MS>>
          /\ Stamps(SelectSeq(alCalls, IsShakeAlert))
                = <<lastSample.at - UPDATE_INTERVAL_MS>>

C5_Witness ==
    /\ matched = 3
    /\ IsNorm(lastSample.v, 26)
    /\ lastSample.last = lastSample.at - UPDATE_INTERVAL_MS
    /\ Len(ciCalls) = 1
    /\ Len(alCalls) = 1

(* The noise watcher finishes a sampling window and evaluates its peak. *)
NoiseWindowEvaluated ==
    /\ noisePc \in {"prepare", "start", "stop"}
    /\ noisePc' \in {"sleep", "resetAudioMode"}

(* C6: a sampling window of the noise watcher whose peak is below the      *)
(* very-loud threshold produces no check-in, no alert event and no         *)
(* notification, however long ago the last noise alert was.                *)
C6_QuietWindowSilent ==
    [][ (NoiseWindowEvaluated /\ maxLevel < VERY_LOUD_THRESHOLD) =>
            /\ ciCalls' = ciCalls
            /\ alCalls' = alCalls
            /\ updates' = updates
            /\ notifications' = notifications
            /\ lastNoiseAlert' = lastNoiseAlert ]_vars

C6_Witness ==
    /\ noisePc = "sleep"
    /\ maxLevel \in Meterings
    /\ maxLevel < VERY_LOUD_THRESHOLD
    /\ now - lastNoiseAlert > NOISE_COOLDOWN_MS
    /\ ciCalls = <<>>
    /\ alCalls = <<>>
    /\ notifications = <<>>

(* C7: the light watcher reading brightness 0.9 with no alert before       *)
(* makes exactly one check-in, of mood "overwhelmed" with the very bright  *)
(* screen symptom, and exactly one alert event, of the light type.         *)
C7_LightAlertTagged ==
    [][ (LightReads(90) /\ lastLightAlert = 0) =>
            /\ Len(ciCalls') = Len(ciCalls) + 1
            /\ ciCalls'[Len(ciCalls')].mood = "overwhelmed"
            /\ ciCalls'[Len(ciCalls')].symptoms[1] = "Very bright screen / light"
            /\ Len(alCalls') = Len(alCalls) + 1
            /\ alCalls'[Len(alCalls')].type = "light_high" ]_vars

(* C8: an alert event has the type of the watcher that logged it: "shake"  *)
(* from the movement watcher, "noise_high" from the noise watcher,         *)
(* "light_high" from the light watcher.                                    *)
C8_TypeTellsWatcher ==
    \A i \in 1..Len(alCalls) :
        /\ IsShakeAlert(alCalls[i]) <=> alCalls[i].type = "shake"
        /\ IsNoiseAlert(alCalls[i]) <=> alCalls[i].type = "noise_high"
        /\ IsLightAlert(alCalls[i]) <=> alCalls[i].type = "light_high"

(* C9: setProfile(p) makes the profile the store shows p, a second         *)
(* setProfile(p) changes nothing the store shows, and no setProfile        *)
(* changes the check-in log or the alert log.                              *)
C9_SetProfileIdempotent ==
    [][ \A p \in Profiles :
            SetProfileTo(p) =>
                /\ Rendered'.profile = p
                /\ Rendered.profile = p => Rendered' = Rendered
                /\ Rendered'.checkIns = Rendered.checkIns
                /\ Rendered'.alerts = Rendered.alerts
                /\ checkIns' = checkIns
                /\ alerts' = alerts ]_vars

C9_Witness ==
    /\ Len(checkIns) = 1
    /\ Len(alerts) = 1
    /\ Len(updates) = 2
    /\ updates[1] = updates[2]
    /\ updates[1].hook = "profile"
    /\ updates[1].value # NoProfile
    /\ profile = NoProfile

NoiseNotifications ==
    SelectSeq(notifications, LAMBDA n : n.type \in {"noise_high", "noise_followup"})

LightNotifications ==
    SelectSeq(notifications, LAMBDA n : n.type = "light_high")

ShakeNotifications ==
    SelectSeq(notifications, LAMBDA n : n.type = "high_risk_shake")

(* Where a watcher is once its function has returned before its loop. *)
ShakeIdle == {"idle", "unavailable"}
NoiseIdle == {"idle", "denied"}
LightIdle == {"idle", "denied"}

(* C10: a watcher whose permission is denied, or whose sensor is not       *)
(* available, goes to idle and stays there: it takes no sample, asks for   *)
(* no permission again, and has made and makes no check-in, alert event    *)
(* or notification.                                                        *)
C10_DeniedStaysIdle ==
    [][ /\ NoiseRequested("denied") => noisePc' = "denied"
        /\ LightRequested("denied") => lightPc' = "denied"
        /\ ShakeAvailable(FALSE) => shakePc' = "unavailable"
        /\ noisePc \in NoiseIdle =>
              /\ noisePc' = noisePc
              /\ maxLevel' = SILENCE
              /\ SelectSeq(ciCalls', IsNoiseCheckIn) = <<>>
              /\ SelectSeq(alCalls', IsNoiseAlert) = <<>>
              /\ NoiseNotifications' = <<>>
        /\ lightPc \in LightIdle =>
              /\ lightPc' = lightPc
              /\ SelectSeq(ciCalls', IsLightCheckIn) = <<>>
              /\ SelectSeq(alCalls', IsLightAlert) = <<>>
              /\ LightNotifications' = <<>>
        /\ shakePc \in ShakeIdle =>
              /\ shakePc' = shakePc
              /\ subscription' = "null"
              /\ lastSample' = NoSample
              /\ SelectSeq(ciCalls', IsShakeCheckIn) = <<>>
              /\ SelectSeq(alCalls', IsShakeAlert) = <<>>
              /\ ShakeNotifications' = <<>> ]_vars

C10_Witness ==
    /\ platform = "native"
    /\ cast = {"noise"}
    /\ noisePc = "denied"
    /\ ticks = MaxTicks
    /\ unmounted
    /\ ciCalls = <<>>
    /\ alCalls = <<>>
    /\ notifications = <<>>

(* The trigger that requested notification i of ns, when one watcher       *)
(* runs: the noise watcher requests two notifications per trigger, the     *)
(* others one.                                                             *)
TriggerOf(ns, i) ==
    IF ns[i].type \in {"noise_high", "noise_followup"}
    THEN (i + 1) \div 2
    ELSE i

InLog(entry, log) == \E j \in 1..Len(log) : log[j] = entry

(* What the store shows once the updates q are rendered over the profile   *)
(* p, the check-ins c and the alerts a.                                    *)
Shown(q, p, c, a) == ApplyAll(q, [profile |-> p, checkIns |-> c, alerts |-> a])

(* C11: a rejected notification request takes nothing back and stops       *)
(* nothing: the check-in and the alert event of the trigger are in the     *)
(* logs when the notification is requested, they are there after the       *)
(* rejection, and the watcher is where it was.                             *)
C11_NotificationFailureHarmless ==
    [][ /\ notifications' # notifications =>
              /\ Len(ciCalls') = Len(ciCalls) + 1
              /\ Len(alCalls') = Len(alCalls) + 1
              /\ InLog(ciCalls'[Len(ciCalls')],
                       Shown(updates', profile', checkIns', alerts').checkIns)
              /\ InLog(alCalls'[Len(alCalls')],
                       Shown(updates', profile', checkIns', alerts').alerts)
        /\ failed' # failed =>
              /\ <<checkIns', alerts', updates'>> = <<checkIns, alerts, updates>>
              /\ <<ciCalls', alCalls'>> = <<ciCalls, alCalls>>
              /\ <<shakePc', noisePc', lightPc', subscription'>>
                    = <<shakePc, noisePc, lightPc, subscription>>
              /\ <<lastShakeTime', lastNoiseAlert', lastLightAlert'>>
                    = <<lastShakeTime, lastNoiseAlert, lastLightAlert>>
              /\ \A i \in failed' :
                    /\ TriggerOf(notifications, i) <= Len(alCalls)
                    /\ InLog(alCalls[TriggerOf(notifications, i)], Rendered.alerts)
                    /\ InLog(ciCalls[TriggerOf(notifications, i)], Rendered.checkIns)
                    /\ ciCalls[TriggerOf(notifications, i)].timestamp
                          = alCalls[TriggerOf(notifications, i)].timestamp ]_vars

C11_Witness ==
    /\ failed = {1}
    /\ Len(alCalls) = 2
    /\ Len(alerts) = 2
    /\ Len(checkIns) = 2
    /\ updates = <<>>
    /\ ~unmounted

(* A step of the noise watcher in which a call of the recording fails      *)
(* (or the recording is stopped), and a step of the light watcher in       *)
(* which a brightness read fails or delivers.                              *)
NoiseCycleEnds ==
    \/ noisePc = "prepare" /\ noisePc' \notin {"prepare", "start"}
    \/ noisePc = "start" /\ noisePc' \notin {"start", "window"}
    \/ noisePc = "stop" /\ noisePc' # "stop"

LightCycleEnds ==
    /\ lightPc \in {"getSystemBrightness", "getBrightness"}
    /\ lightPc' \notin {"getSystemBrightness", "getBrightness"}

(* C12: a failure inside one sampling cycle ends the cycle and nothing     *)
(* more: unless teardown was requested, the noise watcher goes on to its   *)
(* 30 s gap and from there to the next recording, and the light watcher    *)
(* falls back to its second read, goes on to its gap and from there to     *)
(* the next read.                                                          *)
C12_FailureNotFatal ==
    [][ /\ NoiseCycleEnds =>
              IF noiseCancelled
              THEN noisePc' = "resetAudioMode"
              ELSE noisePc' = "sleep" /\ noiseWake' = now + NOISE_GAP_MS
        /\ (noisePc = "sleep" /\ noisePc' # "sleep") =>
              IF noiseCancelled
              THEN noisePc' = "resetAudioMode"
              ELSE noisePc' = "prepare" /\ maxLevel' = SILENCE
        /\ (lightPc = "getSystemBrightness" /\ lightPc' = "getBrightness") =>
              <<ciCalls', alCalls', lastLightAlert'>> = <<ciCalls, alCalls, lastLightAlert>>
        /\ LightCycleEnds =>
              IF lightCancelled
              THEN lightPc' = "done"
              ELSE lightPc' = "sleep" /\ lightWake' = now + LIGHT_GAP_MS
        /\ (lightPc = "sleep" /\ lightPc' # "sleep") =>
              lightPc' = IF lightCancelled THEN "done" ELSE "getSystemBrightness" ]_vars

(* The first recording failed when the app started, and the second cycle   *)
(* has begun.                                                              *)
C12_Witness ==
    /\ noisePc = "prepare"
    /\ noiseWake = StartTime + NOISE_GAP_MS
    /\ now >= noiseWake
    /\ ~noiseCancelled

(* C13: once the movement watcher's setup and the teardown have both       *)
(* finished, in either order, no accelerometer listener is registered,     *)
(* and the watcher makes no check-in, no alert event and no notification   *)
(* from then on.                                                           *)
C13_ListenerReleased ==
    [][ (unmounted /\ shakePc # "isAvailable") =>
            /\ subscription # "set"
            /\ subscription' # "set"
            /\ SelectSeq(ciCalls', IsShakeCheckIn) = SelectSeq(ciCalls, IsShakeCheckIn)
            /\ SelectSeq(alCalls', IsShakeAlert) = SelectSeq(alCalls, IsShakeAlert)
            /\ notifications' = notifications ]_vars

(* A recording of the noise watcher is running, and a brightness read of   *)
(* the light watcher is in flight.                                         *)
NoiseSampling(pc) == pc \in {"window", "stop"}
LightSampling(pc) == pc \in {"getSystemBrightness", "getBrightness"}

(* C14: one watcher never has two sampling windows in progress at once,    *)
(* two recordings of the noise watcher or two reads of the light watcher,  *)
(* also not once its effect is torn down and run again while an            *)
(* iteration of the earlier loop is in flight.                             *)
C14_OneWindowAtATime ==
    /\ ~(NoiseSampling(noisePc) /\ NoiseSampling(parked.noisePc))
    /\ ~(LightSampling(lightPc) /\ LightSampling(parked.lightPc))

(* C15: the cooldown does not hold up sampling.  A sample evaluated        *)
(* inside the 5 min cooldown triggers nothing and is followed by the       *)
(* usual 30 s gap, the gap's timer starts the next sample whatever the     *)
(* cooldown, and a sample over the threshold evaluated after the cooldown  *)
(* has elapsed triggers.                                                   *)
C15_CooldownKeepsSampling ==
    [][ /\ (NoiseWindowEvaluated /\ now - lastNoiseAlert <= NOISE_COOLDOWN_MS) =>
              /\ <<ciCalls', alCalls', lastNoiseAlert'>> = <<ciCalls, alCalls, lastNoiseAlert>>
              /\ ~noiseCancelled =>
                    noisePc' = "sleep" /\ noiseWake' = now + NOISE_GAP_MS
        /\ (NoiseWindowEvaluated /\ now - lastNoiseAlert > NOISE_COOLDOWN_MS
              /\ maxLevel > VERY_LOUD_THRESHOLD) =>
              /\ Len(ciCalls') = Len(ciCalls) + 1
              /\ Len(alCalls') = Len(alCalls) + 1
              /\ lastNoiseAlert' = now
        /\ (noisePc = "sleep" /\ now >= noiseWake /\ cast = {"noise"}) =>
              ENABLED NoiseSleepEnd
        /\ (LightCycleEnds /\ now - lastLightAlert <= LIGHT_COOLDOWN_MS) =>
              /\ <<ciCalls', alCalls', lastLightAlert'>> = <<ciCalls, alCalls, lastLightAlert>>
              /\ ~lightCancelled =>
                    lightPc' = "sleep" /\ lightWake' = now + LIGHT_GAP_MS
        /\ \A level \in Levels :
              (LightReads(level) /\ level >= VERY_BRIGHT_THRESHOLD
                 /\ now - lastLightAlert > LIGHT_COOLDOWN_MS) =>
                 /\ Len(ciCalls') = Len(ciCalls) + 1
                 /\ Len(alCalls') = Len(alCalls) + 1
                 /\ lastLightAlert' = now
        /\ (lightPc = "sleep" /\ now >= lightWake /\ cast = {"light"}) =>
              ENABLED LightSleepEnd ]_vars

(* A loud window evaluated inside the cooldown of an earlier trigger: no   *)
(* second trigger, and the next window is 30 s away.                       *)
C15_Witness ==
    /\ noisePc = "sleep"
    /\ maxLevel > VERY_LOUD_THRESHOLD
    /\ lastNoiseAlert # 0
    /\ noiseWake - NOISE_GAP_MS > lastNoiseAlert
    /\ noiseWake - NOISE_GAP_MS - lastNoiseAlert <= NOISE_COOLDOWN_MS
    /\ Len(alCalls) = 1

(* No two entries of the log have the same id. *)
DistinctIds(log) ==
    \A i, j \in 1..Len(log) : i # j => log[i].id # log[j].id

(* C16: in every state the ids of the check-in log are pairwise distinct   *)
(* and so are the ids of the alert log, two entries made in the same       *)
(* millisecond included.                                                   *)
C16_IdsDistinct ==
    /\ DistinctIds(Rendered.checkIns)
    /\ DistinctIds(Rendered.alerts)

IsSuffix(a, b) ==
    /\ Len(a) <= Len(b)
    /\ SubSeq(b, Len(b) - Len(a) + 1, Len(b)) = a

(* C17: the logs only grow at the front.  Over every step, and so over     *)
(* setProfile, addCheckIn and logAlertEvent, the check-in log and the      *)
(* alert log before the step are suffixes of the logs after it, both as    *)
(* the store shows them and as rendered last; setProfile leaves both as    *)
(* they are.                                                               *)
C17_LogsAppendOnly ==
    [][ /\ IsSuffix(Rendered.checkIns,
                    Shown(updates', profile', checkIns', alerts').checkIns)
        /\ IsSuffix(Rendered.alerts,
                    Shown(updates', profile', checkIns', alerts').alerts)
        /\ IsSuffix(checkIns, checkIns')
        /\ IsSuffix(alerts, alerts')
        /\ (\E p \in Profiles : SetProfileTo(p)) =>
              /\ Shown(updates', profile', checkIns', alerts').checkIns = Rendered.checkIns
              /\ Shown(updates', profile', checkIns', alerts').alerts = Rendered.alerts ]_vars

C17_Witness ==
    /\ Len(checkIns) = 2
    /\ Len(alerts) = 2
    /\ profile # NoProfile
    /\ updates # <<>>
    /\ updates[1].hook = "profile"

Count(entry, log) == Cardinality({ i \in 1..Len(log) : log[i] = entry })

(* C18: no append is lost.  However the addCheckIn and logAlertEvent       *)
(* calls of the watchers and of the check-in screen interleave, and        *)
(* however many of them come before the store renders, every entry made    *)
(* by a call is in the log the store shows as often as it was made, and    *)
(* the log holds nothing else.                                             *)
C18_NoAppendLost ==
    /\ Len(Rendered.checkIns) = Len(ciCalls)
    /\ Len(Rendered.alerts) = Len(alCalls)
    /\ \A i \in 1..Len(ciCalls) :
          Count(ciCalls[i], Rendered.checkIns) = Count(ciCalls[i], ciCalls)
    /\ \A i \in 1..Len(alCalls) :
          Count(alCalls[i], Rendered.alerts) = Count(alCalls[i], alCalls)

(* The movement watcher and the light watcher have both triggered since    *)
(* store rendered last.                                                    *)
C18_Witness ==
    /\ Len(updates) = 4
    /\ checkIns = <<>>
    /\ alerts = <<>>
    /\ \E i, j \in 1..Len(ciCalls) : IsShakeCheckIn(ciCalls[i]) /\ IsLightCheckIn(ciCalls[j])
    /\ \E i, j \in 1..Len(alCalls) : IsShakeAlert(alCalls[i]) /\ IsLightAlert(alCalls[j])

Positions(step) == { i \in 1..Len(steps) : steps[i] = step }

(* C19: the steps of a trigger come in the stated order.  The calls of     *)
(* the last trigger are: the haptic cue first, made by the movement        *)
(* watcher and by no other; then addCheckIn, once; then logAlertEvent,     *)
(* once; then the notification requests, all of them after both.  In the   *)
(* store's queue the alert event of a trigger comes right after the        *)
(* check-in of the same trigger.                                           *)
C19_StepsInOrder ==
    /\ steps # <<>> =>
          /\ Positions("haptic") =
                IF IsShakeAlert(alCalls[Len(alCalls)]) THEN {1} ELSE {}
          /\ Cardinality(Positions("addCheckIn")) = 1
          /\ Cardinality(Positions("logAlertEvent")) = 1
          /\ Positions("scheduleNotification") # {}
          /\ \A i \in Positions("addCheckIn") :
                \A j \in Positions("logAlertEvent") : i < j
          /\ \A i \in Positions("logAlertEvent") :
                \A j \in Positions("scheduleNotification") : i < j
    /\ \A j \in 1..Len(updates) :
          updates[j].hook = "alerts" =>
             /\ j > 1
             /\ updates[j - 1].hook = "checkIns"
             /\ updates[j - 1].value.timestamp = updates[j].value.timestamp

(* The movement watcher has triggered and the store has not rendered its   *)
(* two entries yet.                                                        *)
C19_Witness ==
    /\ steps = <<"haptic", "addCheckIn", "logAlertEvent", "scheduleNotification">>
    /\ Len(updates) = 2
    /\ IsShakeCheckIn(updates[1].value)
    /\ IsShakeAlert(updates[2].value)

(* The notification requests that the spec gives one trigger. *)
RequestsOf(a) ==
    IF IsNoiseAlert(a)
    THEN << [type |-> "noise_high", seconds |-> 0],
            [type |-> "noise_followup", seconds |-> 90] >>
    ELSE IF IsShakeAlert(a)
    THEN << [type |-> "high_risk_shake", seconds |-> 0] >>
    ELSE << [type |-> "light_high", seconds |-> 0] >>

RECURSIVE RequestsOfAll(_)
RequestsOfAll(calls) ==
    IF calls = <<>> THEN <<>>
    ELSE RequestsOf(Head(calls)) \o RequestsOfAll(Tail(calls))

(* C20: the notification requests made so far are those of the triggers    *)
(* so far, trigger by trigger: an immediate one and a follow-up 90         *)
(* seconds later for a noise trigger, one immediate one for a movement     *)
(* trigger and for a light trigger, and no other; whether a request        *)
(* fails afterwards changes nothing of this.                               *)
C20_NotificationsPerTrigger ==
    notifications = RequestsOfAll(alCalls)

(* Two noise triggers, four requests, and none made for anything else. *)
C20_Witness ==
    /\ Len(alCalls) = 2
    /\ \A i \in 1..2 : IsNoiseAlert(alCalls[i])
    /\ Len(notifications) = 4
    /\ notifications[4].seconds = 90

(* C21: a reading exactly at the threshold triggers nothing: a brightness  *)
(* of exactly 0.85, a movement of magnitude exactly 2.3 and a noise peak   *)
(* of exactly -12 each leave the check-ins and the alert events as they    *)
(* were.                                                                   *)
C21_AtThresholdSilent ==
    [][ ( \/ LightReads(VERY_BRIGHT_THRESHOLD)
          \/ \E v \in Samples :
                TotalSq(v) = SHAKE_THRESHOLD * SHAKE_THRESHOLD /\ ShakeSample(v)
          \/ NoiseWindowEvaluated /\ maxLevel = VERY_LOUD_THRESHOLD )
        => /\ ciCalls' = ciCalls
           /\ alCalls' = alCalls ]_vars

(* What the movement watcher runs on: its position, its subscription and   *)
(* the time of its last trigger.                                           *)
ShakeRun == <<shakePc, subscription, lastShakeTime>>

C23_WatcherEntriesExcluded ==
    /\ \A i \in 1..Len(ciCalls) : isSensorLike(ciCalls[i])
    /\ last7Manual(checkIns, now) = <<>>
    /\ todayManual(checkIns, now) = <<>>
    /\ recentManual(checkIns, now) = <<>>

(* The store shows two check-ins of a watcher. *)
C23_Witness ==
    /\ Len(checkIns) = 2
    /\ updates = <<>>
    /\ Len(last7Manual(checkIns, now)) = 0

(* C28: no check-in made on the check-in screen is sensor-like, whatever   *)
(* mood and whatever body options were selected, in whatever order, or     *)
(* none; the mood overview and the mood statistics count every one of      *)
(* them: last7Manual, todayManual and recentManual of the log the store    *)
(* shows are the whole log.                                                *)
C28_ManualEntriesCounted ==
    /\ \A i \in 1..Len(ciCalls) : ~isSensorLike(ciCalls[i])
    /\ last7Manual(checkIns, now) = checkIns
    /\ todayManual(checkIns, now) = checkIns
    /\ recentManual(checkIns, now) = checkIns

(* The store shows a check-in logged with "Very tired", "Noise too much"   *)
(* and "Lights too bright" selected, in this order.                        *)
C28_Witness ==
    /\ updates = <<>>
    /\ Len(checkIns) = 1
    /\ checkIns[1].symptoms = <<"Very tired", "Noise too much", "Lights too bright">>
    /\ Len(last7Manual(checkIns, now)) = 1


----------------------------------------------------------------------------
(* C24: the schedule is kept per user: when the schedule screen loads its  *)
(* stored items, every item it shows was saved under the profile that is   *)
(* signed in.                                                              *)
C24_SchedulePerUser ==
    [][ ( /\ io # <<>>
          /\ Head(io).op = "get"
          /\ Head(io).then = "scheduleLoad"
          /\ items' # items )
        => \A i \in 1..Len(items') : items'[i].by = profile.email ]_vars

(* C27: today's usage round-trips through storage: when load() has read    *)
(* the usage and nothing was added since the screen mounted, usedMinutes   *)
(* is the value that was stored for today when the screen mounted.         *)
C27_UsageRoundTrips ==
    [][ ( /\ screenTimePc = "loadUsage"
          /\ screenTimePc' = "ready"
          /\ usedMinutes = 0
          /\ persisted # "" )
        => usedMinutes' = parseInt(persisted) ]_vars


(* user, assistant, user, ... from the first message on. *)
Alternates(ms) ==
    \A i \in 1..Len(ms) : ms[i].role = IF i % 2 = 1 THEN "user" ELSE "assistant"

(* C25: every conversation passed to sendToComet alternates user and       *)
(* assistant strictly, starting with a user message, once its leading      *)
(* assistant messages are dropped.                                         *)
C25_ConversationAlternates ==
    \A i \in 1..Len(sent) : Alternates(Filtered(sent[i]))

(* C26: every accepted Send is answered: the call it made settles, the     *)
(* settling appends exactly one assistant message to the conversation that *)
(* holds the user's message and sets loading to false, whatever fetch did; *)
(* and once no call is in flight the chat is shown with loading false.     *)
C26_SendAnswered ==
    /\ [][ appended' # appended =>
             /\ appended' = appended + 1
             /\ pending' = pending - 1
             /\ LET before == Flushed(chatQueue, ChatState(messages, input, loading))
                    after == Flushed(chatQueue', ChatState(messages', input', loading'))
                    n == Len(before.messages)
                    asked == sent[appended + 1]
                IN  /\ Len(after.messages) = n + 1
                    /\ SubSeq(after.messages, 1, n) = before.messages
                    /\ after.messages[n + 1].role = "assistant"
                    /\ \E i \in 1..n : before.messages[i] = asked[Len(asked)]
                    /\ ~after.loading ]_vars
    /\ [](appended + pending = Len(sent))
    /\ (pending > 0) ~> (pending = 0 /\ chatQueue = <<>> /\ ~loading)

(* Two Sends were answered, one by a reply and one after an HTTP error or  *)
(* a network failure, and the chat is idle again.                          *)
C26_Witness ==
    /\ appended = 2
    /\ pending = 0
    /\ chatQueue = <<>>
    /\ ~loading
    /\ Len(messages) = 5
    /\ messages[3].content = "reply"
    /\ messages[5].content = "trouble thinking"


(* The time of the last check-in among calls, 0 when there is none. *)
LastTrigger(calls) ==
    IF calls = <<>> THEN 0 ELSE calls[Len(calls)].timestamp

(* C29: a watcher's last-trigger timestamp is the time of its last         *)
(* trigger: it changes only in a step that logs the watcher's check-in,    *)
(* and then to the time of that step, so that suppressed and quiet samples *)
(* leave it alone; and a sample over the threshold that is taken more than *)
(* the cooldown after the previous trigger does trigger.                   *)
C29_StampOnlyOnTrigger ==
    /\ [](/\ lastShakeTime = LastTrigger(SelectSeq(ciCalls, IsShakeCheckIn))
          /\ lastNoiseAlert = LastTrigger(SelectSeq(ciCalls, IsNoiseCheckIn))
          /\ lastLightAlert = LastTrigger(SelectSeq(ciCalls, IsLightCheckIn)))
    /\ [][ /\ lastShakeTime' # lastShakeTime =>
                /\ lastShakeTime' = now
                /\ Len(SelectSeq(ciCalls', IsShakeCheckIn))
                       = Len(SelectSeq(ciCalls, IsShakeCheckIn)) + 1
           /\ lastNoiseAlert' # lastNoiseAlert =>
                /\ lastNoiseAlert' = now
                /\ Len(SelectSeq(ciCalls', IsNoiseCheckIn))
                       = Len(SelectSeq(ciCalls, IsNoiseCheckIn)) + 1
           /\ lastLightAlert' # lastLightAlert =>
                /\ lastLightAlert' = now
                /\ Len(SelectSeq(ciCalls', IsLightCheckIn))
                       = Len(SelectSeq(ciCalls, IsLightCheckIn)) + 1
           /\ ( /\ lastSample' # lastSample
                /\ OverShakeThreshold(lastSample'.v)
                /\ now - LastTrigger(SelectSeq(ciCalls, IsShakeCheckIn)) > SHAKE_COOLDOWN_MS )
              => lastShakeTime' = now
           /\ ( /\ noisePc \in {"prepare", "start", "stop"}
                /\ noisePc' \in {"sleep", "resetAudioMode"}
                /\ maxLevel > VERY_LOUD_THRESHOLD
                /\ now - LastTrigger(SelectSeq(ciCalls, IsNoiseCheckIn)) > NOISE_COOLDOWN_MS )
              => lastNoiseAlert' = now
           /\ \A level \in Levels :
                ( /\ level > VERY_BRIGHT_THRESHOLD
                  /\ now - LastTrigger(SelectSeq(ciCalls, IsLightCheckIn)) > LIGHT_COOLDOWN_MS
                  /\ LightReads(level) )
                => lastLightAlert' = now ]_vars

(* The movement watcher has triggered, and a later sample over the         *)
(* threshold was suppressed by the cooldown: the timestamp is still the    *)
(* time of the trigger.                                                    *)
C29_Witness ==
    /\ lastSample.at # 0
    /\ OverShakeThreshold(lastSample.v)
    /\ lastSample.last # 0
    /\ lastSample.at > lastSample.last
    /\ lastSample.at - lastSample.last <= SHAKE_COOLDOWN_MS
    /\ lastShakeTime = lastSample.last
    /\ Len(SelectSeq(ciCalls, IsShakeCheckIn)) = 1


(* The watchers of the cast have left their functions. *)
LoopsEnded ==
    /\ "noise" \in cast => noisePc \in {"idle", "denied", "done"}
    /\ "light" \in cast => lightPc \in {"idle", "denied", "done"}

(* C30: once teardown is requested a noise or light watcher starts no new  *)
(* sampling window; a check-in it still logs comes with one alert event,   *)
(* out of the iteration that was running, and the loop is left in that     *)
(* very step; outside the loop nothing is logged and the loop is not       *)
(* entered again; and the loop does end.                                   *)
C30_TeardownEndsLoops ==
    /\ [][ /\ noiseCancelled =>
                /\ noisePc # "prepare" => noisePc' # "prepare"
                /\ noisePc \in {"resetAudioMode", "idle", "denied", "done"} =>
                      /\ noisePc' \in {"resetAudioMode", "idle", "denied", "done"}
                      /\ ciCalls' = ciCalls
                      /\ alCalls' = alCalls
                /\ ("noise" \in cast /\ ciCalls' # ciCalls) =>
                      /\ noisePc \in {"prepare", "start", "stop"}
                      /\ noisePc' = "resetAudioMode"
                      /\ Len(ciCalls') = Len(ciCalls) + 1
                      /\ Len(alCalls') = Len(alCalls) + 1
           /\ lightCancelled =>
                /\ lightPc \notin {"getSystemBrightness", "getBrightness"} =>
                      lightPc' \notin {"getSystemBrightness", "getBrightness"}
                /\ lightPc \in {"idle", "denied", "done"} =>
                      /\ lightPc' = lightPc
                      /\ "light" \in cast => ciCalls' = ciCalls /\ alCalls' = alCalls
                /\ ("light" \in cast /\ ciCalls' # ciCalls) =>
                      /\ lightPc \in {"getSystemBrightness", "getBrightness"}
                      /\ lightPc' = "done"
                      /\ Len(ciCalls') = Len(ciCalls) + 1
                      /\ Len(alCalls') = Len(alCalls) + 1 ]_vars
    /\ (unmounted /\ CanAppend) ~> LoopsEnded

(* The noise watcher was torn down inside a sampling window, has logged    *)
(* the one check-in of that window (the iteration did not set the next     *)
(* wake-up) and has ended.                                                 *)
C30_Witness ==
    /\ unmounted
    /\ noisePc = "done"
    /\ Len(ciCalls) = 1
    /\ Len(alCalls) = 1
    /\ lastNoiseAlert # 0
    /\ noiseWake <= lastNoiseAlert

====
